---------------------------- MODULE Spec2Model ----------------------------
(***************************************************************************)
(* Model of the distributed coordination layer of the vector database:     *)
(* the DistributedVectorDatabase facade (distributed_database.cpp), the    *)
(* ShardingManager routing it uses (sharding_manager.cpp) and the part of  *)
(* the ReplicationManager the facade drives (replication_manager.cpp),     *)
(* and of the BM25 engine of the hybrid retrieval layer (bm25_engine.cpp). *)
(***************************************************************************)
EXTENDS Integers, Sequences, FiniteSets, TLC

(***************************************************************************)
(* Bounds of the model.                                                    *)
(***************************************************************************)
\* number of add calls that may draw a temporary id
MaxAdds == 2
\* largest number of configured shards (at least one is configured)
MaxShards == 2
\* bits of precision of the floats of the distance kernels
MantissaBits == 3
\* the largest finite float
MaxFinite == 448
\* largest length of the vectors passed to the kernels and to FlatIndex
MaxDim == 2
\* vectors added to a FlatIndex
MaxStored == 3
\* worker threads of a ThreadPool
NumWorkers == 2
\* tasks handed to ThreadPool::submit
MaxTasks == 3
\* largest k passed to search
MaxK == 2
\* number of caller threads issuing add concurrently
NumThreads == 2
\* largest number of operations held in the pending replication queue
MaxQueue == 1
\* nodes a replication configuration or add_replica may name
MaxNodes == 3
\* replicate_* calls made on a manager
MaxOps == 2
\* the clock does not go beyond this many ms
MaxClock == 402
\* the clock readings replicate_* calls are given
MaxStamp == 2
\* document ids given to BM25Engine::add_document
MaxDocs == 3
\* the fractional bits scores and logarithms are kept with
ScoreBits == 14
\* the greatest k of BM25Engine::search
MaxResults == 2

(***************************************************************************)
(* Program constants.                                                      *)
(***************************************************************************)
\* static std::atomic<VectorId> temp_id_generator{1000000}
TempIdStart == 1000000
\* search_shard simulates at most this many results per shard
SimulatedResults == 10
\* width of the id range owned by one shard under the Range strategy
RangeWidth == 1000000

(***************************************************************************)
(* 64-bit unsigned arithmetic.  A uint64_t is a sequence of six limbs of   *)
(* 11 bits, least significant first (the top limb holds 9 bits), so that   *)
(* every intermediate product stays below 2^31 and "hash >> 33" is a shift *)
(* by exactly three limbs.                                                 *)
(***************************************************************************)
Limb == 2^11
TopLimb == 2^9

U64(n) == << n % Limb, (n \div Limb) % Limb, (n \div (Limb * Limb)) % Limb, 0, 0, 0 >>

RECURSIVE BitXor(_, _)
BitXor(a, b) ==
    IF a = 0 THEN b
    ELSE IF b = 0 THEN a
    ELSE (((a % 2) + (b % 2)) % 2) + 2 * BitXor(a \div 2, b \div 2)

Xor64(x, y) == [i \in 1..6 |-> BitXor(x[i], y[i])]

\* x >> 33
Shr33(x) == << x[4], x[5], x[6], 0, 0, 0 >>

RECURSIVE MulCol(_, _, _, _)
\* sum of x[i] * y[k+1-i] for i in 1..j : column k of the schoolbook product
MulCol(x, y, k, j) ==
    IF j = 0 THEN 0 ELSE x[j] * y[k + 1 - j] + MulCol(x, y, k, j - 1)

RECURSIVE MulLimbs(_, _, _, _)
\* limbs k..6 of x * y given the carry into column k
MulLimbs(x, y, k, carry) ==
    IF k > 6 THEN << >>
    ELSE LET s == MulCol(x, y, k, k) + carry
         IN  << s % (IF k = 6 THEN TopLimb ELSE Limb) >>
                 \o MulLimbs(x, y, k + 1, s \div Limb)

\* x * y modulo 2^64
Mul64(x, y) == MulLimbs(x, y, 1, 0)

RECURSIVE ModHigh(_, _, _)
\* (limbs i..6 of x, read as a number) modulo n
ModHigh(x, n, i) ==
    IF i > 6 THEN 0 ELSE (x[i] + Limb * ModHigh(x, n, i + 1)) % n

\* x % n for a small n
Mod64(x, n) == ModHigh(x, n, 1)

RECURSIVE LessFrom(_, _, _)
LessFrom(x, y, i) ==
    IF i = 0 THEN FALSE
    ELSE IF x[i] # y[i] THEN x[i] < y[i]
    ELSE LessFrom(x, y, i - 1)

\* x < y
Less64(x, y) == LessFrom(x, y, 6)

(***************************************************************************)
(* ShardingManager::Impl hash functions.                                   *)
(***************************************************************************)
\* 0xff51afd7ed558ccd
HashMul1 == << 1229, 689, 1973, 2027, 1306, 510 >>
\* 0xc4ceb9fe1a85ec53
HashMul2 == << 1107, 189, 106, 1279, 1259, 393 >>
\* 0x9e3779b97f4a7c15
GoldenRatio == << 1045, 335, 1533, 1244, 887, 316 >>

XorShift33(h) == Xor64(h, Shr33(h))

hash_id(id) ==
    XorShift33(Mul64(XorShift33(Mul64(XorShift33(U64(id)), HashMul1)), HashMul2))

\* the ids the model routes: the ids callers pass and the temporary ids add draws
RoutedIds == (0..(MaxAdds + 1)) \cup (TempIdStart..(TempIdStart + MaxAdds))

\* hash_id over the routed ids, computed once
HashOfId == [id \in RoutedIds |-> hash_id(id)]

RECURSIVE HashChars(_, _, _)
HashChars(key, i, hash) ==
    IF i > Len(key) THEN hash
    ELSE HashChars(key, i + 1,
                   XorShift33(Mul64(Xor64(hash, U64(key[i])), GoldenRatio)))

\* key is the sequence of the character codes of the string
hash_string(key) == HashChars(key, 1, GoldenRatio)

(***************************************************************************)
(* State.                                                                  *)
(***************************************************************************)
VARIABLES
    \* ShardingManager
    strategy,             \* config_.strategy
    config_shards,        \* ShardingManager::config_.shards (the table the public API edits)
    impl_config_shards,   \* ShardingManager::Impl::config.shards (the copy the finders read)
    virtual_ring,         \* Impl::virtual_ring, as the shard table it was built from
    shard_stats,          \* the keys of Impl::shard_stats (no code writes the counters)
    sharding_running,     \* ShardingManager::Impl::running
    \* ReplicationManager
    mode,                 \* config_.mode
    running,              \* Impl::running
    pending_operations,   \* Impl::pending_operations
    nodes,                \* Impl::nodes : node id -> NodeState
    node_order,           \* the order in which the unordered_map nodes is iterated
    current_primary,      \* Impl::current_primary
    lifecycle,            \* where the caller of start / stop is
    producer,             \* the caller inside replicate_add / _remove / _update
    worker,               \* replication_thread: position and the operation it holds
    futures,              \* replication_futures: the replicate_to_node tasks running
    heartbeat,            \* heartbeat_thread: position and the node it looks at
    next_op,              \* number of replicate_* calls made (their ids)
    \* DistributedVectorDatabase
    local_shards,         \* Impl::local_shards : shard id -> vector_count
    dimension,            \* Impl::dimension
    temp_id_generator,    \* the function-local static of add
    clock,                \* std::chrono::system_clock, in ms since construction
    last_heartbeat_ms,    \* NodeState::last_heartbeat_ms of every node of the table
    pass,                 \* heartbeat_thread inside a pass: its time sample and place
    failover,             \* failover_thread: its position
    callers,              \* the threads inside replicate_* at the same time
    mutex,                \* Impl::mutex: the thread that owns it
    invoker,              \* the thread inside trigger_failover_internal and its callback
    \* BM25Engine
    bm25_config,          \* BM25Engine::Impl::config
    documents,            \* Impl::documents : id -> Document
    inverted_index,       \* Impl::inverted_index : term -> postings (id, frequency)
    document_frequency,   \* Impl::document_frequency : term -> count
    total_documents,      \* Impl::total_documents
    total_terms,          \* Impl::total_terms
    avg_doc_length,       \* Impl::avg_doc_length, as the fraction it is the quotient of
    \* ThreadPool
    workers_,             \* ThreadPool::workers_: the position of every worker thread
    tasks_,               \* ThreadPool::tasks_
    stop_,                \* ThreadPool::stop_
    active_tasks_,        \* ThreadPool::active_tasks_
    owner,                \* the thread that constructs and destroys the pool
    submitter,            \* the thread inside submit
    accepted,             \* the tasks submit has queued
    rejected,             \* the tasks submit has refused
    executed,             \* how often each task has been run
    \* FlatIndex
    dimension_,           \* FlatIndex::dimension_
    distance_type_,       \* FlatIndex::distance_type_
    vectors_,             \* FlatIndex::vectors_
    ids_,                 \* FlatIndex::ids_
    flat_last,            \* the FlatIndex call that returned last
    \* distance kernels
    kernel_a,             \* the first vector passed to the kernels
    kernel_b,             \* the second vector
    kernel_out,           \* what the kernels returned for (a, b) and for (b, a)
    \* caller threads inside add
    pc,                   \* position of each thread
    frame,                \* locals of the add call each thread is in
    \* history
    phase,                \* "constructed", "open" (init returned) or "closed" (close returned)
    issued,               \* the successful adds, in order of return: id, shard, metadata
    removed,              \* ids for which remove returned true
    last,                 \* the call that returned last, with its arguments and its result
    callback_arg,         \* what the last trigger_failover_internal passed to failover_callback
    delivered,            \* per node, the replicate_to_node calls that completed, in order
    dispatched,           \* per operation, the nodes process_replication_operation sent it to
    call_result,          \* the replicate_* call that returned last
    pending_at_stop       \* the operations that were pending when stop was called

vars == << strategy, config_shards, impl_config_shards, virtual_ring, shard_stats,
           sharding_running,
           mode, running, pending_operations, local_shards, dimension,
           temp_id_generator, pc, frame, phase, issued, removed, last,
           nodes, node_order, current_primary, lifecycle, producer, worker, futures,
           heartbeat, next_op, callback_arg, delivered, dispatched, call_result,
           pending_at_stop, bm25_config, documents, inverted_index,
           document_frequency, total_documents, total_terms, avg_doc_length,
           clock, last_heartbeat_ms, pass, failover, callers, mutex, invoker,
           workers_, tasks_, stop_, active_tasks_, owner, submitter, accepted, rejected,
           executed, dimension_, distance_type_, vectors_, ids_, flat_last,
           kernel_a, kernel_b, kernel_out >>

\* the clock and what the heartbeat pass keeps of it
timeVars == << clock, last_heartbeat_ms, pass >>

\* what the threads of the manager keep besides worker and heartbeat
\* Impl::mutex and the thread that runs the failover callback
lockVars == << mutex, invoker >>

threadVars == << timeVars, failover, callers, lockVars >>

\* the fields of ThreadPool and the threads that use it
poolVars == << workers_, tasks_, stop_, active_tasks_, owner, submitter, accepted,
              rejected, executed >>

\* the fields of FlatIndex
flatVars == << dimension_, distance_type_, vectors_, ids_, flat_last >>

\* the arguments and results of the distance kernels
kernelVars == << kernel_a, kernel_b, kernel_out >>

\* the classes of src/core and src/index
coreVars == << poolVars, flatVars, kernelVars >>

\* the fields of BM25Engine::Impl
bm25Vars == << bm25_config, documents, inverted_index, document_frequency,
              total_documents, total_terms, avg_doc_length >>

shardingVars == << strategy, config_shards, impl_config_shards, virtual_ring, shard_stats >>

\* the ReplicationManager state the facade never touches itself
managerVars == << threadVars, nodes, node_order, current_primary, lifecycle, producer, worker,
                  futures, heartbeat, next_op, callback_arg, delivered, dispatched,
                  call_result, pending_at_stop >>

\* everything outside the ReplicationManager
facadeVars == << shardingVars, bm25Vars, coreVars, sharding_running, local_shards, dimension,
                temp_id_generator, pc, frame, phase, issued, removed, last >>

Threads == 1..NumThreads

Strategies == {"None", "Hash", "Range", "Consistent"}

\* ReplicationMode values the facade is configured with
FacadeModes == {"None", "Async"}

\* vector dimensions callers use (EndToEndTest.SystemRobustness: 64 and 32)
Dims == {64, 32}

\* the dimension given to init
InitDims == {64}

\* Metadata is represented by its source_file field
MetadataValues == {"even.txt", "odd.txt"}
NoMetadata == "nullopt"

\* a predicate over Metadata is the set of source_file values it accepts;
\* NoFilter is the empty std::function
NoFilter == [present |-> FALSE, accepts |-> {}]
Filters == {[present |-> TRUE, accepts |-> {"even.txt"}]}

Ok(v) == [ok |-> TRUE, value |-> v]
Err(e) == [ok |-> FALSE, error |-> e]

Min(a, b) == IF a < b THEN a ELSE b

Range(f) == {f[i] : i \in DOMAIN f}

(***************************************************************************)
(* ShardingManager.                                                        *)
(***************************************************************************)
\* ShardingTest::SetUp: shard i is "shard<i>" and owns [i * 10^6, (i + 1) * 10^6)
ShardConfig(i) ==
    [shard_id |-> i, start_range |-> i * RangeWidth, end_range |-> (i + 1) * RangeWidth]

\* the empty shard id string the finders return for an empty table
EmptyShardId == 0 - 1

ShardTable(n) == [i \in 1..n |-> ShardConfig(i - 1)]

RECURSIVE ToChars(_)
\* std::to_string(n) as character codes
ToChars(n) == IF n < 10 THEN << 48 + n >> ELSE ToChars(n \div 10) \o << 48 + (n % 10) >>

\* the characters of the shard id string "shard<i>"
ShardIdChars(i) == << 115, 104, 97, 114, 100 >> \o ToChars(i)

VIRTUAL_NODES_PER_SHARD == 150

\* the virtual node i of a shard
VirtualNode(shard_id, i) ==
    [shard_id |-> shard_id,
     virtual_node_index |-> i,
     hash_value |-> hash_string(ShardIdChars(shard_id) \o << 35 >> \o ToChars(i))]

\* virtual_ring after the rebuild: every shard's virtual nodes in creation order,
\* then sorted by hash_value (rank[j] is the place of the j-th created node)
initialize_consistent_hashing(shards) ==
    LET n == Len(shards) * VIRTUAL_NODES_PER_SHARD
        created == [j \in 1..n |->
                       VirtualNode(shards[((j - 1) \div VIRTUAL_NODES_PER_SHARD) + 1].shard_id,
                                   (j - 1) % VIRTUAL_NODES_PER_SHARD)] \o << >>
        before(a, b) == \/ Less64(created[a].hash_value, created[b].hash_value)
                        \/ created[a].hash_value = created[b].hash_value /\ a < b
        rank == [j \in 1..n |-> 1 + Cardinality({a \in 1..n : before(a, j)})] \o << >>
        at == [r \in 1..n |-> CHOOSE j \in 1..n : rank[j] = r] \o << >>
    IN  [r \in 1..n |-> created[at[r]]] \o << >>

RECURSIVE LowerBound(_, _, _, _)
\* std::lower_bound over ring[first .. first + count - 1]: the index of the first
\* virtual node whose hash_value is not below hash, Len(ring) + 1 if there is none
LowerBound(ring, hash, first, count) ==
    IF count <= 0 THEN first
    ELSE LET step == count \div 2
             it == first + step
         IN  IF Less64(ring[it].hash_value, hash)
             THEN LowerBound(ring, hash, it + 1, count - (step + 1))
             ELSE LowerBound(ring, hash, first, step)

\* every shard table the manager can be constructed with
ShardLists == {ShardTable(n) : n \in 0..MaxShards}

\* the sorted ring of each shard table
RingNodes == [shards \in ShardLists |-> initialize_consistent_hashing(shards)]

\* Impl::virtual_ring: the variable holds the shard table the ring was built from
\* (<< >> for the empty ring), ring_nodes is the vector of virtual nodes itself
ring_nodes == RingNodes[virtual_ring]

\* a router that takes the hash modulo the size of the current table
find_shard_consistent_modulo(hash) ==
    IF config_shards = << >> THEN EmptyShardId
    ELSE config_shards[Mod64(hash, Len(config_shards)) + 1].shard_id

find_shard_consistent(hash) ==
    IF ring_nodes = << >>
    THEN IF impl_config_shards = << >> THEN EmptyShardId ELSE impl_config_shards[1].shard_id
    ELSE LET it == LowerBound(ring_nodes, hash, 1, Len(ring_nodes))
         IN  IF it > Len(ring_nodes) THEN ring_nodes[1].shard_id
             ELSE ring_nodes[it].shard_id

find_shard_hash(id) ==
    IF impl_config_shards = << >> THEN EmptyShardId
    ELSE impl_config_shards[Mod64(HashOfId[id], Len(impl_config_shards)) + 1].shard_id

RECURSIVE FirstInRange(_, _, _)
FirstInRange(shards, id, i) ==
    IF i > Len(shards) THEN 0
    ELSE IF id >= shards[i].start_range /\ id < shards[i].end_range THEN i
    ELSE FirstInRange(shards, id, i + 1)

\* find_shard_range with the end of the range inclusive
find_shard_range_closed(id) ==
    LET hit == {i \in DOMAIN impl_config_shards :
                   id >= impl_config_shards[i].start_range
                       /\ id <= impl_config_shards[i].end_range}
    IN  IF hit # {} THEN impl_config_shards[CHOOSE i \in hit : \A j \in hit : i <= j].shard_id
        ELSE IF impl_config_shards = << >> THEN EmptyShardId ELSE impl_config_shards[1].shard_id

find_shard_range(id) ==
    LET i == FirstInRange(impl_config_shards, id, 1)
    IN  IF i # 0 THEN impl_config_shards[i].shard_id
        ELSE IF impl_config_shards = << >> THEN EmptyShardId ELSE impl_config_shards[1].shard_id

\* get_shard_for_id that falls back to the first shard until start is called
get_shard_for_id_unstarted(id) ==
    IF config_shards = << >> THEN Err("No shards configured")
    ELSE IF ~sharding_running THEN Ok(config_shards[1].shard_id)
    ELSE CASE strategy = "Hash" -> Ok(find_shard_hash(id))
           [] strategy = "Range" -> Ok(find_shard_range(id))
           [] strategy = "Consistent" -> Ok(find_shard_consistent(HashOfId[id]))
           [] OTHER -> Ok(config_shards[1].shard_id)

get_shard_for_id(id) ==
    IF config_shards = << >> THEN Err("No shards configured")
    ELSE CASE strategy = "None" -> Ok(config_shards[1].shard_id)
           [] strategy = "Hash" -> Ok(find_shard_hash(id))
           [] strategy = "Range" -> Ok(find_shard_range(id))
           [] strategy = "Consistent" -> Ok(find_shard_consistent(HashOfId[id]))
           [] OTHER -> Ok(config_shards[1].shard_id)

get_all_shards == Ok([i \in 1..Len(config_shards) |-> config_shards[i].shard_id])

\* the string keys the model routes: "a", "b" and "key"
Keys == {<< 97 >>, << 98 >>, << 107, 101, 121 >>}

\* hash_string over the routed keys, computed once
HashOfKey == [key \in Keys |-> hash_string(key)]

get_shard_for_key(key) ==
    IF config_shards = << >> THEN Err("No shards configured")
    ELSE CASE strategy = "None" -> Ok(config_shards[1].shard_id)
           [] strategy = "Hash" ->
                  Ok(config_shards[Mod64(HashOfKey[key], Len(config_shards)) + 1].shard_id)
           [] strategy = "Consistent" -> Ok(find_shard_consistent(HashOfKey[key]))
           [] strategy = "Range" -> Ok(config_shards[1].shard_id)
           [] OTHER -> Ok(config_shards[1].shard_id)

\* ShardingManager::ShardingManager: the state the constructor leaves
ShardingManager(shards) ==
    /\ config_shards = shards
    /\ impl_config_shards = shards
    /\ shard_stats = {shards[i].shard_id : i \in DOMAIN shards}
    /\ virtual_ring = IF strategy = "Consistent" THEN shards ELSE << >>
    /\ sharding_running = FALSE

(***************************************************************************)
(* ReplicationManager: the producer side the facade calls.                 *)
(***************************************************************************)
\* replicate_add / replicate_remove / replicate_update: the result of the call and
\* the pending queue it leaves
replicate(op) ==
    IF ~running
    THEN [result |-> Err("ReplicationManager not running"), queue |-> pending_operations]
    ELSE IF mode = "None"
    THEN [result |-> Ok("void"), queue |-> pending_operations]
    ELSE [result |-> Ok("void"), queue |-> Append(pending_operations, op)]

\* the vector and metadata payload of an operation is read by no code of the manager
ReplicationOperation(type, id) == [type |-> type, id |-> id]

(***************************************************************************)
(* ReplicationManager: the replica table and the constructor.              *)
(***************************************************************************)
\* node i stands for the node id "node<i>"; ids compare as their numbers do
NodeIds == 1..MaxNodes

\* the empty node id
NoNode == 0

\* priorities of the configured nodes: integers, compared with the int
\* highest_priority of trigger_failover_internal, which starts at -1
Priorities == {-2, -1, 5}

\* ReplicationConfig::min_replicas of ReplicationTest
min_replicas == 2

\* ReplicationConfig::heartbeat_interval_ms of ReplicationTest
heartbeat_interval_ms == 100

\* what the manager reads of a NodeConfig
NodeConfig(node_id, priority, is_primary) ==
    [node_id |-> node_id, priority |-> priority, is_primary |-> is_primary]

\* NodeState(cfg) as the constructor and add_replica leave it: healthy, with
\* last_heartbeat_ms = now.  heartbeat_recent says that last_heartbeat_ms is
\* no more than 3 * heartbeat_interval_ms old.
NodeState(cfg) == [config |-> cfg, is_healthy |-> TRUE, heartbeat_recent |-> TRUE]

RECURSIVE LastPrimary(_, _)
\* the node the constructor's loop leaves in current_primary
LastPrimary(config_nodes, i) ==
    IF i = 0 THEN NoNode
    ELSE IF config_nodes[i].is_primary THEN config_nodes[i].node_id
    ELSE LastPrimary(config_nodes, i - 1)

\* std::max_element by priority: the first of the greatest
MaxElement(config_nodes) ==
    config_nodes[CHOOSE i \in DOMAIN config_nodes :
                     \A j \in DOMAIN config_nodes :
                         \/ config_nodes[j].priority < config_nodes[i].priority
                         \/ config_nodes[j].priority = config_nodes[i].priority /\ i <= j]

ConstructedPrimary(config_nodes) ==
    IF LastPrimary(config_nodes, Len(config_nodes)) # NoNode
    THEN LastPrimary(config_nodes, Len(config_nodes))
    ELSE IF config_nodes # << >> THEN MaxElement(config_nodes).node_id
    ELSE NoNode

ConstructedNodes(config_nodes) ==
    [id \in {config_nodes[i].node_id : i \in DOMAIN config_nodes} |->
        NodeState(config_nodes[CHOOSE i \in DOMAIN config_nodes :
                                   /\ config_nodes[i].node_id = id
                                   /\ \A j \in DOMAIN config_nodes :
                                          config_nodes[j].node_id = id => j <= i])]

\* the orders in which an unordered_map holding the keys ids may be iterated
IterationOrders(ids) ==
    {order \in [1..Cardinality(ids) -> ids] :
        \A i, j \in 1..Cardinality(ids) : order[i] = order[j] => i = j}

NoOp == [type |-> "none", id |-> 0]

\* heartbeat_thread outside a pass: now is its time sample, i its place in
\* the iteration over nodes, node the node it is looking at
NoPass == [pc |-> "sleep", now |-> 0, i |-> 0, node |-> 0]

\* no thread owns the mutex
NoThread == "none"

\* no thread is inside trigger_failover_internal: who is the thread, method
\* what its callback called, relocked whether that call came to lock the mutex
NoInvoker == [pc |-> "idle", who |-> NoThread, method |-> "none", relocked |-> FALSE]

\* ReplicationManager::ReplicationManager(config): the state it leaves
ReplicationManager(config_nodes) ==
    /\ nodes = ConstructedNodes(config_nodes)
    /\ clock = 0
    /\ last_heartbeat_ms = [id \in {config_nodes[i].node_id : i \in DOMAIN config_nodes} |-> 0]
    /\ pass = NoPass
    /\ failover = "unstarted"
    /\ callers = [t \in Threads |-> [pc |-> "idle", op |-> NoOp]]
    /\ mutex = NoThread
    /\ invoker = NoInvoker
    /\ node_order \in IterationOrders({config_nodes[i].node_id : i \in DOMAIN config_nodes})
    /\ current_primary = ConstructedPrimary(config_nodes)
    /\ running = FALSE
    /\ pending_operations = << >>
    /\ lifecycle = "constructed"
    /\ producer = [pc |-> "idle", op |-> NoOp]
    /\ worker = [pc |-> "unstarted", op |-> NoOp]
    /\ futures = {}
    /\ heartbeat = [pc |-> "unstarted", node |-> NoNode]
    /\ next_op = 0
    /\ callback_arg = NoNode
    /\ delivered = [n \in NodeIds |-> << >>]
    /\ dispatched = << >>
    /\ call_result = [op |-> NoOp, result |-> Ok("void"), settled |-> {},
                      healthy_replicas |-> {}]
    /\ pending_at_stop = {}

\* the replication configuration of the facade tests: the primary alone
FacadeNodes == << NodeConfig(1, 5, TRUE) >>

(***************************************************************************)
(* DistributedVectorDatabase::Impl.                                        *)
(***************************************************************************)
\* add_to_shard with a plain load of the counter in place of fetch_add
add_to_shard_load(shard_id) ==
    IF shard_id \notin DOMAIN local_shards
    THEN [result |-> Err("Shard not found"), shards |-> local_shards]
    ELSE [result |-> Ok(local_shards[shard_id] + 1), shards |-> local_shards]

\* add_to_shard: the result and the shard counters it leaves
add_to_shard(shard_id) ==
    IF shard_id \notin DOMAIN local_shards
    THEN [result |-> Err("Shard not found"), shards |-> local_shards]
    ELSE [result |-> Ok(local_shards[shard_id] + 1),
          shards |-> [local_shards EXCEPT ![shard_id] = @ + 1]]

\* search_shard: distance and score are in tenths (distance = 0.1f * i, score = 1.0f - distance)
search_shard(shard_id, k) ==
    Ok([j \in 1..Min(k, SimulatedResults) |->
           [id |-> j, distance |-> j - 1, score |-> 10 - (j - 1), metadata |-> NoMetadata]])

RECURSIVE Concat(_, _)
\* shard_results[i..] appended one after the other
Concat(shard_results, i) ==
    IF i > Len(shard_results) THEN << >>
    ELSE shard_results[i] \o Concat(shard_results, i + 1)

RECURSIVE InsertByScore(_, _)
\* r put after every entry of the descending sequence whose score is not below its own
InsertByScore(sorted, r) ==
    IF sorted = << >> THEN << r >>
    ELSE IF r.score > sorted[1].score THEN << r >> \o sorted
    ELSE << sorted[1] >> \o InsertByScore(Tail(sorted), r)

RECURSIVE SortByScore(_, _)
\* std::sort with the comparator a.score > b.score
SortByScore(merged, n) ==
    IF n = 0 THEN << >> ELSE InsertByScore(SortByScore(merged, n - 1), merged[n])

\* merge_results without the resize to k
merge_results_unresized(shard_results, k) ==
    LET merged == Concat(shard_results, 1)
    IN  SortByScore(merged, Len(merged))

\* std::sort is not stable, but entries of equal score are equal in every field
\* (search_shard gives each shard the same list), so every order it may produce
\* is the same sequence
merge_results(shard_results, k) ==
    LET merged == Concat(shard_results, 1)
        sorted == SortByScore(merged, Len(merged))
    IN  IF Len(sorted) > k THEN SubSeq(sorted, 1, k) ELSE sorted

(***************************************************************************)
(* Calls and their records.                                                *)
(***************************************************************************)
\* the call that returned: its name, the phase in which it was issued, its
\* arguments, its result and what it observed on the way
Returned(op, ph, args, result, seen) ==
    [op |-> op, phase |-> ph, args |-> args, result |-> result, seen |-> seen]

NoFrame == [vector_dim |-> 0, metadata |-> NoMetadata, temp_id |-> 0, shard_id |-> 0,
            id |-> 0, phase |-> "none"]

\* the ids of the successful adds
IssuedIds == {issued[i].id : i \in DOMAIN issued}

\* id was returned by a successful add and no remove of it has returned true since
Live(id) == id \in IssuedIds /\ id \notin removed

\* ids callers pass to remove, get and update_metadata: those add can return
IdArgs == 1..MaxAdds

(***************************************************************************)
(* BM25Engine: text processing.  A string is a sequence of characters, a   *)
(* character a string of length one.                                       *)
(***************************************************************************)
UpperCase == << "A", "B", "C", "D", "E", "F", "G", "H", "I", "J", "K", "L", "M",
               "N", "O", "P", "Q", "R", "S", "T", "U", "V", "W", "X", "Y", "Z" >>
LowerCase == << "a", "b", "c", "d", "e", "f", "g", "h", "i", "j", "k", "l", "m",
               "n", "o", "p", "q", "r", "s", "t", "u", "v", "w", "x", "y", "z" >>
Digits == {"0", "1", "2", "3", "4", "5", "6", "7", "8", "9"}

AlphaNumeric == Range(UpperCase) \cup Range(LowerCase) \cup Digits

\* std::isalnum in the C locale
isalnum(c) == c \in AlphaNumeric

\* std::tolower in the C locale
tolower(c) ==
    IF \E i \in DOMAIN UpperCase : UpperCase[i] = c
    THEN LowerCase[CHOOSE i \in DOMAIN UpperCase : UpperCase[i] = c]
    ELSE c

to_lower(str) == [i \in 1..Len(str) |-> tolower(str[i])] \o << >>

\* the loop of tokenize from character i on, with the token and the tokens
\* collected so far
RECURSIVE tokenize_from(_, _, _, _)
tokenize_from(text, i, token, tokens) ==
    IF i > Len(text)
    THEN IF token # << >> THEN Append(tokens, token) ELSE tokens
    ELSE LET c == text[i]
         IN  IF isalnum(c) \/ c = "-" \/ c = "_"
             THEN tokenize_from(text, i + 1, Append(token, c), tokens)
             ELSE IF token # << >>
                  THEN tokenize_from(text, i + 1, << >>, Append(tokens, token))
                  ELSE tokenize_from(text, i + 1, token, tokens)

tokenize(text) == tokenize_from(text, 1, << >>, << >>)

\* the last n characters of a word of at least n characters
Suffix(word, n) == SubSeq(word, Len(word) - n + 1, Len(word))

stem(word) ==
    IF Len(word) > 3
    THEN IF Suffix(word, 3) = << "i", "n", "g" >>
         THEN SubSeq(word, 1, Len(word) - 3)
         ELSE IF Suffix(word, 2) = << "e", "d" >>
              THEN SubSeq(word, 1, Len(word) - 2)
              ELSE IF word[Len(word)] = "s" /\ Suffix(word, 2) # << "s", "s" >>
                   THEN SubSeq(word, 1, Len(word) - 1)
                   ELSE word
    ELSE word

STOP_WORDS ==
    { << "a" >>, << "a", "n" >>, << "a", "n", "d" >>, << "a", "r", "e" >>, << "a", "s" >>,
      << "a", "t" >>, << "b", "e" >>, << "b", "y" >>, << "f", "o", "r" >>,
      << "f", "r", "o", "m" >>, << "h", "a", "s" >>, << "h", "e" >>, << "i", "n" >>,
      << "i", "s" >>, << "i", "t" >>, << "i", "t", "s" >>, << "o", "f" >>, << "o", "n" >>,
      << "t", "h", "a", "t" >>, << "t", "h", "e" >>, << "t", "o" >>, << "w", "a", "s" >>,
      << "w", "e", "r", "e" >>, << "w", "i", "l", "l" >>, << "w", "i", "t", "h" >>,
      << "t", "h", "i", "s" >>, << "b", "u", "t" >>, << "t", "h", "e", "y" >>,
      << "h", "a", "v", "e" >> }

is_stop_word(word) == word \in STOP_WORDS

\* the loop of process_text from token i on
RECURSIVE process_from(_, _, _, _)
process_from(tokens, i, config, processed) ==
    IF i > Len(tokens) THEN processed
    ELSE LET token == IF config.case_sensitive THEN tokens[i] ELSE to_lower(tokens[i])
         IN  IF Len(token) < config.min_term_length \/ is_stop_word(token)
             THEN process_from(tokens, i + 1, config, processed)
             ELSE process_from(tokens, i + 1, config,
                               Append(processed,
                                      IF config.use_stemming THEN stem(token) ELSE token))

process_text(text, config) == process_from(tokenize(text), 1, config, << >>)

(***************************************************************************)
(* BM25Engine::Impl.                                                       *)
(***************************************************************************)
RECURSIVE GCD(_, _)
GCD(a, b) == IF b = 0 THEN a ELSE GCD(b, a % b)

\* the double static_cast<double>(n) / d, as the fraction in lowest terms
Quotient(n, d) == [num |-> n \div GCD(n, d), den |-> d \div GCD(n, d)]

\* double 0.0
Zero == [num |-> 0, den |-> 1]

\* the positions (counted from 0) at which term stands in terms, ascending
positions(terms, term) ==
    LET at == SelectSeq([p \in 1..Len(terms) |-> p] \o << >>, LAMBDA p : terms[p] = term)
    IN  [i \in 1..Len(at) |-> at[i] - 1] \o << >>

\* the Document add_document builds from the processed terms
Document(id, content, terms) ==
    [id |-> id, content |-> content, length |-> Len(terms),
     terms |-> [term \in Range(terms) |->
                   [text |-> term,
                    frequency |-> Len(positions(terms, term)),
                    positions |-> positions(terms, term)]]]

\* inverted_index after one posting per term of doc was pushed
push_postings(index, doc) ==
    [term \in DOMAIN index \cup DOMAIN doc.terms |->
        LET postings == IF term \in DOMAIN index THEN index[term] ELSE << >>
        IN  IF term \in DOMAIN doc.terms
            THEN Append(postings, << doc.id, doc.terms[term].frequency >>)
            ELSE postings]

\* document_frequency with the occurrences of every term of doc added
count_occurrences(df, doc) ==
    [term \in DOMAIN df \cup DOMAIN doc.terms |->
        LET count == IF term \in DOMAIN df THEN df[term] ELSE 0
        IN  IF term \in DOMAIN doc.terms
            THEN count + doc.terms[term].frequency
            ELSE count]

\* document_frequency after the increments for the terms of doc
count_document(df, doc) ==
    [term \in DOMAIN df \cup DOMAIN doc.terms |->
        LET count == IF term \in DOMAIN df THEN df[term] ELSE 0
        IN  IF term \in DOMAIN doc.terms /\ doc.terms[term].frequency > 0
            THEN count + 1
            ELSE count]

\* the configurations an engine is built with
MinTermLengths == {2, 4}
BM25Configs ==
    [case_sensitive : BOOLEAN, use_stemming : BOOLEAN, min_term_length : MinTermLengths]

\* the configuration of an engine nothing is added to
DefaultBM25Config == [case_sensitive |-> FALSE, use_stemming |-> TRUE, min_term_length |-> 2]

\* the constructor
BM25Engine(config) ==
    /\ bm25_config = config
    /\ documents = << >>
    /\ inverted_index = << >>
    /\ document_frequency = << >>
    /\ total_documents = 0
    /\ total_terms = 0
    /\ avg_doc_length = Zero

\* no ThreadPool has been constructed
ThreadPoolUnused ==
    /\ workers_ = << >>
    /\ tasks_ = << >>
    /\ stop_ = FALSE
    /\ active_tasks_ = 0
    /\ owner = "none"
    /\ submitter = "none"
    /\ accepted = {}
    /\ rejected = {}
    /\ executed = << >>

\* no FlatIndex has been constructed
FlatIndexUnused ==
    /\ dimension_ = 0
    /\ distance_type_ = "Cosine"
    /\ vectors_ = << >>
    /\ ids_ = << >>
    /\ flat_last = << >>

\* no distance kernel has been called
KernelsUnused ==
    /\ kernel_a = << >>
    /\ kernel_b = << >>
    /\ kernel_out = << >>

CoreUnused == ThreadPoolUnused /\ FlatIndexUnused /\ KernelsUnused

\* the fields of the engine, as one value
BM25State ==
    [documents |-> documents, inverted_index |-> inverted_index,
     document_frequency |-> document_frequency, total_documents |-> total_documents,
     total_terms |-> total_terms, avg_doc_length |-> avg_doc_length]

(***************************************************************************)
(* Initial state: the facade has been constructed from a replication and a *)
(* sharding configuration; init has not been called.                       *)
(***************************************************************************)
Init ==
    /\ strategy \in Strategies
    /\ \E n \in 1..MaxShards : ShardingManager(ShardTable(n))
    /\ mode \in FacadeModes
    /\ ReplicationManager(FacadeNodes)
    /\ BM25Engine(DefaultBM25Config)
    /\ CoreUnused
    /\ local_shards = << >>
    /\ dimension = 0
    /\ temp_id_generator = TempIdStart
    /\ pc = [t \in Threads |-> "idle"]
    /\ frame = [t \in Threads |-> NoFrame]
    /\ phase = "constructed"
    /\ issued = << >>
    /\ removed = {}
    /\ last = Returned("none", "constructed", << >>, Ok("void"), << >>)

(***************************************************************************)
(* DistributedVectorDatabase::init and close.                              *)
(***************************************************************************)
\* the database is opened once, while no caller is inside add
init(d) ==
    LET shard_ids == Range(get_all_shards.value)
    IN  /\ phase = "constructed"
        /\ \A t \in Threads : pc[t] = "idle"
        /\ dimension' = d
        /\ local_shards' = [sid \in (DOMAIN local_shards) \cup shard_ids |->
                               IF sid \in shard_ids THEN 0 ELSE local_shards[sid]]
        /\ running' = TRUE
        /\ sharding_running' = IF running THEN sharding_running ELSE TRUE
        /\ phase' = "open"
        /\ last' = Returned("init", phase, << d >>,
                            IF running THEN Err("ReplicationManager already running")
                            ELSE IF sharding_running
                                 THEN Err("ShardingManager already running")
                                 ELSE Ok("void"),
                            << >>)
        /\ lifecycle' = "running"
        /\ UNCHANGED << nodes, node_order, current_primary, producer, worker, futures,
                        heartbeat, next_op, callback_arg, delivered, dispatched,
                        call_result, pending_at_stop >>
        /\ UNCHANGED << bm25Vars, coreVars, threadVars, shardingVars, mode, pending_operations, temp_id_generator,
                        pc, frame, issued, removed >>

\* close stops both managers; the operations still pending stay in the queue
close ==
    /\ phase = "open"
    /\ running' = FALSE
    /\ sharding_running' = FALSE
    /\ phase' = "closed"
    /\ last' = Returned("close", phase, << >>, Ok("void"), << >>)
    /\ lifecycle' = "stopped"
    /\ UNCHANGED << nodes, node_order, current_primary, producer, worker, futures,
                    heartbeat, next_op, callback_arg, delivered, dispatched,
                    call_result, pending_at_stop >>
    /\ UNCHANGED << bm25Vars, coreVars, threadVars, shardingVars, mode, pending_operations, local_shards, dimension,
                    temp_id_generator, pc, frame, issued, removed >>

(***************************************************************************)
(* DistributedVectorDatabase::add, one caller thread at a time.  The steps *)
(* are the accesses to shared state: the dimension check with the draw of  *)
(* the temporary id, the routing with the shard's counter (the shard table *)
(* never changes under the facade), the running test of replicate_add, and *)
(* the push onto the pending queue.                                        *)
(***************************************************************************)
\* a call that may push is issued only while the pending queue has room
QueueHasRoom == (running /\ mode # "None") => Len(pending_operations) < MaxQueue

\* add without its dimension check
dimension_unchecked(vector_dim) == FALSE

\* if (vector.dim() != impl_->dimension)
dimension_mismatch(vector_dim) == vector_dim # dimension

AddReturn(t, result) ==
    /\ pc' = [pc EXCEPT ![t] = "idle"]
    /\ frame' = [frame EXCEPT ![t] = NoFrame]
    /\ last' = Returned("add", frame[t].phase,
                        << frame[t].vector_dim, frame[t].metadata >>, result,
                        << frame[t].shard_id >>)
    /\ issued' = IF result.ok
                 THEN Append(issued, [id |-> result.value, shard_id |-> frame[t].shard_id,
                                      metadata |-> frame[t].metadata])
                 ELSE issued
    /\ removed' = IF result.ok THEN removed \ {result.value} ELSE removed

add_call(t, vector_dim, metadata) ==
    /\ pc[t] = "idle"
    /\ temp_id_generator < TempIdStart + MaxAdds
    /\ QueueHasRoom
    /\ IF dimension_mismatch(vector_dim)
       THEN /\ last' = Returned("add", phase, << vector_dim, metadata >>,
                                Err("Vector dimension mismatch"), << >>)
            /\ UNCHANGED << temp_id_generator, pc, frame >>
       ELSE /\ temp_id_generator' = temp_id_generator + 1
            /\ frame' = [frame EXCEPT ![t] =
                            [NoFrame EXCEPT !.vector_dim = vector_dim,
                                            !.metadata = metadata,
                                            !.temp_id = temp_id_generator,
                                            !.phase = phase]]
            /\ pc' = [pc EXCEPT ![t] = "route"]
            /\ UNCHANGED last
    /\ UNCHANGED << bm25Vars, coreVars, managerVars, shardingVars, sharding_running, mode, running, pending_operations,
                    local_shards, dimension, phase, issued, removed >>

add_route(t) ==
    /\ pc[t] = "route"
    /\ LET shard_result == get_shard_for_id(frame[t].temp_id)
           id_result == add_to_shard(shard_result.value)
       IN  IF ~shard_result.ok
           THEN AddReturn(t, shard_result) /\ UNCHANGED local_shards
           ELSE IF ~id_result.result.ok
           THEN AddReturn(t, id_result.result) /\ UNCHANGED local_shards
           ELSE /\ local_shards' = id_result.shards
                /\ frame' = [frame EXCEPT ![t].shard_id = shard_result.value,
                                          ![t].id = id_result.result.value]
                /\ pc' = [pc EXCEPT ![t] = "replicate"]
                /\ UNCHANGED << last, issued, removed >>
    /\ UNCHANGED << bm25Vars, coreVars, managerVars, shardingVars, sharding_running, mode, running, pending_operations,
                    dimension, temp_id_generator, phase >>

\* add undoing the local insert and failing when replicate_add fails
add_replicate_rollback(t) ==
    /\ pc[t] = "replicate"
    /\ IF ~running
       THEN /\ AddReturn(t, Err("Replication failed"))
            /\ local_shards' = [local_shards EXCEPT ![frame[t].shard_id] = @ - 1]
       ELSE /\ IF mode = "None"
               THEN AddReturn(t, Ok(frame[t].id))
               ELSE /\ pc' = [pc EXCEPT ![t] = "push"]
                    /\ UNCHANGED << frame, last, issued, removed >>
            /\ UNCHANGED local_shards
    /\ UNCHANGED << bm25Vars, coreVars, managerVars, shardingVars, sharding_running, mode, running, pending_operations,
                    dimension, temp_id_generator, phase >>

\* replicate_add up to its tests of running and of the mode; a failure is only logged
add_replicate(t) ==
    /\ pc[t] = "replicate"
    /\ IF ~running \/ mode = "None"
       THEN AddReturn(t, Ok(frame[t].id))
       ELSE pc' = [pc EXCEPT ![t] = "push"] /\ UNCHANGED << frame, last, issued, removed >>
    /\ UNCHANGED << bm25Vars, coreVars, managerVars, shardingVars, sharding_running, mode, running, pending_operations,
                    local_shards, dimension, temp_id_generator, phase >>

\* the push under the manager's mutex, and the return of the id
add_push(t) ==
    /\ pc[t] = "push"
    /\ pending_operations' =
           Append(pending_operations, ReplicationOperation("Add", frame[t].id))
    /\ AddReturn(t, Ok(frame[t].id))
    /\ UNCHANGED << bm25Vars, coreVars, managerVars, shardingVars, sharding_running, mode, running,
                    local_shards, dimension, temp_id_generator, phase >>

(***************************************************************************)
(* DistributedVectorDatabase::remove, get, update_metadata and search.     *)
(***************************************************************************)
remove(id) ==
    LET shard_result == get_shard_for_id(id)
        repl == replicate(ReplicationOperation("Remove", id))
    IN  /\ QueueHasRoom
        /\ IF ~shard_result.ok
           THEN /\ last' = Returned("remove", phase, << id >>, shard_result, << >>)
                /\ UNCHANGED << pending_operations, removed >>
           ELSE IF shard_result.value \notin DOMAIN local_shards
           THEN /\ last' = Returned("remove", phase, << id >>, Ok(FALSE),
                                    [shard |-> shard_result.value, present |-> Live(id)])
                /\ UNCHANGED << pending_operations, removed >>
           ELSE /\ pending_operations' = repl.queue
                /\ removed' = removed \cup {id}
                /\ last' = Returned("remove", phase, << id >>, Ok(TRUE),
                                    [shard |-> shard_result.value, present |-> Live(id)])
        /\ UNCHANGED << bm25Vars, coreVars, managerVars, shardingVars, sharding_running, mode, running, local_shards,
                        dimension, temp_id_generator, pc, frame, phase, issued >>

\* the vector get simulates has the database's dimension
get(id) ==
    LET shard_result == get_shard_for_id(id)
    IN  /\ last' = Returned("get", phase, << id >>,
                            IF ~shard_result.ok THEN shard_result
                            ELSE IF shard_result.value \notin DOMAIN local_shards
                                 THEN Ok("nullopt")
                                 ELSE Ok([dim |-> dimension]),
                            IF shard_result.ok THEN << shard_result.value >> ELSE << >>)
        /\ UNCHANGED << bm25Vars, coreVars, managerVars, shardingVars, sharding_running, mode, running, pending_operations,
                        local_shards, dimension, temp_id_generator, pc, frame, phase,
                        issued, removed >>

update_metadata(id, metadata) ==
    LET shard_result == get_shard_for_id(id)
        repl == replicate(ReplicationOperation("Update", id))
    IN  /\ QueueHasRoom
        /\ IF ~shard_result.ok
           THEN /\ last' = Returned("update_metadata", phase, << id, metadata >>,
                                    shard_result, << >>)
                /\ UNCHANGED pending_operations
           ELSE /\ pending_operations' = repl.queue
                /\ last' = Returned("update_metadata", phase, << id, metadata >>,
                                    Ok("void"), << shard_result.value >>)
        /\ UNCHANGED << bm25Vars, coreVars, managerVars, shardingVars, sharding_running, mode, running, local_shards,
                        dimension, temp_id_generator, pc, frame, phase, issued, removed >>

\* if (result.metadata && filter(*result.metadata))
passes(filter, r) == r.metadata # NoMetadata /\ r.metadata \in filter.accepts

apply_filter(merged, filter) ==
    IF filter.present
    THEN SelectSeq(merged, LAMBDA r : passes(filter, r))
    ELSE merged

\* the per-shard results search gathers, in the order of get_all_shards
gather(k) ==
    LET shard_ids == get_all_shards.value
    IN  [i \in 1..Len(shard_ids) |-> search_shard(shard_ids[i], k).value]

search(query_dim, k, filter) ==
    /\ last' = IF query_dim # dimension
               THEN Returned("search", phase, << query_dim, k, filter >>,
                             Err("Query dimension mismatch"), << >>)
               ELSE Returned("search", phase, << query_dim, k, filter >>,
                             Ok(apply_filter(merge_results(gather(k), k), filter)),
                             gather(k))
    /\ UNCHANGED << bm25Vars, coreVars, managerVars, shardingVars, sharding_running, mode, running, pending_operations,
                    local_shards, dimension, temp_id_generator, pc, frame, phase,
                    issued, removed >>

(***************************************************************************)
(* ReplicationManager::Impl::replication_worker: the drain of the queue.   *)
(***************************************************************************)
replication_worker ==
    /\ running
    /\ pending_operations # << >>
    /\ pending_operations' = Tail(pending_operations)
    /\ UNCHANGED << bm25Vars, coreVars, managerVars, shardingVars, sharding_running, mode, running, local_shards,
                    dimension, temp_id_generator, pc, frame, phase, issued, removed, last >>

(***************************************************************************)
(* Spec: one caller uses the facade; a call is issued when the one before  *)
(* has returned.  Replication is configured off (ReplicationMode::None),   *)
(* so replicate_* returns at once, nothing is pushed and the worker finds  *)
(* the queue empty.                                                        *)
(***************************************************************************)
Caller == 1

CallerIdle == pc[Caller] = "idle"

Next ==
    \/ \E d \in InitDims : init(d)
    \/ CallerIdle /\ close
    \/ \E d \in Dims, m \in MetadataValues : add_call(Caller, d, m)
    \/ add_route(Caller)
    \/ add_replicate(Caller)
    \/ CallerIdle /\ \E id \in IdArgs : remove(id)
    \/ CallerIdle /\ \E id \in IdArgs : get(id)
    \/ CallerIdle /\ \E id \in IdArgs, m \in MetadataValues : update_metadata(id, m)
    \/ CallerIdle /\ \E d \in Dims, k \in 0..MaxK, f \in Filters \cup {NoFilter} :
                         search(d, k, f)

InitNone == Init /\ mode = "None"

Spec == InitNone /\ [][Next]_vars

(***************************************************************************)
(* SpecReplicated: the writes of one caller with replication on, in the    *)
(* configuration of DistributedDatabaseTest: hash sharding and asynchronous *)
(* replication.                                                            *)
(***************************************************************************)
NextReplicated ==
    \/ \E d \in InitDims : init(d)
    \/ CallerIdle /\ close
    \/ \E d \in Dims, m \in MetadataValues : add_call(Caller, d, m)
    \/ add_route(Caller)
    \/ add_replicate(Caller)
    \/ add_push(Caller)
    \/ CallerIdle /\ \E id \in IdArgs : remove(id)
    \/ CallerIdle /\ \E id \in IdArgs : update_metadata(id, "even.txt")
    \/ replication_worker

InitAsync == Init /\ mode = "Async" /\ strategy = "Hash"

SpecReplicated == InitAsync /\ [][NextReplicated]_vars


(***************************************************************************)
(* SpecConcurrent: several threads call add on the same database at once   *)
(* with vectors of the dimension given to init                             *)
(* (EndToEndTest.ConcurrentOperations); close may come at any moment.      *)
(***************************************************************************)
NextConcurrent ==
    \/ \E d \in InitDims : init(d)
    \/ close
    \/ \E t \in Threads, d \in InitDims : add_call(t, d, "even.txt")
    \/ \E t \in Threads : add_route(t)
    \/ \E t \in Threads : add_replicate(t)
    \/ \E t \in Threads : add_push(t)
    \/ replication_worker

SpecConcurrent == Init /\ [][NextConcurrent]_vars

(***************************************************************************)
(* ReplicationManager on its own: start and stop, the three replicate_*    *)
(* producers, the replication worker with process_replication_operation    *)
(* and replicate_to_node, the heartbeat and failover workers, and the      *)
(* replica table calls.  Steps are the accesses to shared state.           *)
(***************************************************************************)
\* the replicas as process_replication_operation and heartbeat_worker see them
Replicas == {n \in DOMAIN nodes : n # current_primary}

HealthyReplicas == {n \in Replicas : nodes[n].is_healthy}

\* the nodes for which replicate_to_node has returned for operation id, with
\* an acknowledgment or after the timeout
Settled(id) == {n \in NodeIds : \E i \in DOMAIN delivered[n] : delivered[n][i].op = id}

\* start: the flag is set and the three threads are created
start ==
    /\ lifecycle = "constructed"
    /\ ~running
    /\ running' = TRUE
    /\ lifecycle' = "running"
    /\ worker' = [pc |-> "wait", op |-> NoOp]
    /\ heartbeat' = [pc |-> "sleep", node |-> NoNode]
    /\ failover' = "sleep"
    /\ UNCHANGED << facadeVars, timeVars, callers, lockVars, mode, pending_operations, nodes, node_order,
                    current_primary, producer, futures, next_op, callback_arg,
                    delivered, dispatched, call_result, pending_at_stop >>

\* cv.notify_one() and cv.notify_all(): a thread blocked in wait_for wakes
\* and tests the predicate again; a thread that is not blocked sees nothing
notified(w) == IF w.pc = "blocked" THEN [w EXCEPT !.pc = "wait"] ELSE w

\* stop up to cv.notify_all()
stop_call ==
    /\ lifecycle = "running"
    /\ running
    /\ running' = FALSE
    /\ lifecycle' = "stopping"
    /\ pending_at_stop' = {pending_operations[i].id : i \in DOMAIN pending_operations}
    /\ worker' = notified(worker)
    /\ UNCHANGED << facadeVars, threadVars, mode, pending_operations, nodes, node_order,
                    current_primary, producer, futures, heartbeat, next_op,
                    callback_arg, delivered, dispatched, call_result >>

\* stop from the joins to its return: the threads have left their loops
stop_join ==
    /\ lifecycle = "stopping"
    /\ worker.pc = "exited"
    /\ heartbeat.pc = "exited"
    /\ failover = "exited"
    /\ lifecycle' = "stopped"
    /\ UNCHANGED << facadeVars, threadVars, mode, running, pending_operations, nodes, node_order,
                    current_primary, producer, worker, futures, heartbeat, next_op,
                    callback_arg, delivered, dispatched, call_result, pending_at_stop >>

\* what a replicate_* call hands back, and what had happened to its
\* operation by then
CallReturned(op, result) ==
    [op |-> op, result |-> result, settled |-> Settled(op.id),
     healthy_replicas |-> HealthyReplicas]

\* replicate_add / replicate_remove / replicate_update up to the tests of
\* running and of the mode; the call's id is its number
replicate_call(type) ==
    LET op == ReplicationOperation(type, next_op + 1)
        tested == replicate(op)
    IN  /\ producer.pc = "idle"
        /\ next_op < MaxOps
        /\ next_op' = next_op + 1
        /\ IF tested.queue = pending_operations
           THEN /\ call_result' = CallReturned(op, tested.result)
                /\ UNCHANGED producer
           ELSE /\ producer' = [pc |-> "push", op |-> op]
                /\ UNCHANGED call_result
        /\ UNCHANGED << facadeVars, threadVars, mode, running, pending_operations, nodes, node_order,
                        current_primary, lifecycle, worker, futures, heartbeat,
                        callback_arg, delivered, dispatched, pending_at_stop >>

\* the push under the mutex
replicate_push ==
    /\ producer.pc = "push"
    /\ pending_operations' = Append(pending_operations, producer.op)
    /\ producer' = [producer EXCEPT !.pc = "return"]
    /\ UNCHANGED << facadeVars, threadVars, mode, running, nodes, node_order, current_primary,
                    lifecycle, worker, futures, heartbeat, next_op, callback_arg,
                    delivered, dispatched, call_result, pending_at_stop >>

\* cv.notify_one() and the return
replicate_return ==
    /\ producer.pc = "return"
    /\ call_result' = CallReturned(producer.op, Ok("void"))
    /\ producer' = [pc |-> "idle", op |-> NoOp]
    /\ worker' = notified(worker)
    /\ UNCHANGED << facadeVars, threadVars, mode, running, pending_operations, nodes, node_order,
                    current_primary, lifecycle, futures, heartbeat, next_op,
                    callback_arg, delivered, dispatched, pending_at_stop >>

\* replication_worker, one turn of its loop up to the pop: it leaves when
\* running is false, and waits while the queue is empty
worker_wait ==
    /\ worker.pc = "wait"
    /\ IF ~running
       THEN worker' = [pc |-> "exited", op |-> NoOp] /\ UNCHANGED pending_operations
       ELSE /\ pending_operations # << >>
            /\ worker' = [pc |-> "process", op |-> Head(pending_operations)]
            /\ pending_operations' = Tail(pending_operations)
    /\ UNCHANGED << facadeVars, threadVars, mode, running, nodes, node_order, current_primary,
                    lifecycle, producer, futures, heartbeat, next_op, callback_arg,
                    delivered, dispatched, call_result, pending_at_stop >>

\* process_replication_operation that stops at the first healthy replica
process_launch_one ==
    LET targets == IF HealthyReplicas = {} THEN {}
                   ELSE {CHOOSE n \in HealthyReplicas : \A m \in HealthyReplicas : n <= m}
    IN  /\ worker.pc = "process"
        /\ futures' = futures \cup {<< worker.op.id, n >> : n \in targets}
        /\ dispatched' = [id \in (DOMAIN dispatched) \cup {worker.op.id} |->
                             IF id = worker.op.id THEN targets ELSE dispatched[id]]
        /\ worker' = [worker EXCEPT !.pc = "collect"]
        /\ UNCHANGED << facadeVars, threadVars, mode, running, pending_operations, nodes, node_order,
                        current_primary, lifecycle, producer, heartbeat, next_op,
                        callback_arg, delivered, call_result, pending_at_stop >>

\* process_replication_operation: one std::async task per healthy replica
process_launch ==
    /\ worker.pc = "process"
    /\ futures' = futures \cup {<< worker.op.id, n >> : n \in HealthyReplicas}
    /\ dispatched' = [id \in (DOMAIN dispatched) \cup {worker.op.id} |->
                         IF id = worker.op.id THEN HealthyReplicas ELSE dispatched[id]]
    /\ worker' = [worker EXCEPT !.pc = "collect"]
    /\ UNCHANGED << facadeVars, threadVars, mode, running, pending_operations, nodes, node_order,
                    current_primary, lifecycle, producer, heartbeat, next_op,
                    callback_arg, delivered, call_result, pending_at_stop >>

\* replicate_to_node run by a task: in Sync and SemiSync mode it returns
\* false when it took longer than sync_timeout_ms
replicate_to_node(id, n) ==
    /\ << id, n >> \in futures
    /\ futures' = futures \ {<< id, n >>}
    /\ \E ok \in (IF mode = "Async" THEN {TRUE} ELSE BOOLEAN) :
           delivered' = [delivered EXCEPT ![n] = Append(@, [op |-> id, ok |-> ok])]
    /\ UNCHANGED << facadeVars, threadVars, mode, running, pending_operations, nodes, node_order,
                    current_primary, lifecycle, producer, worker, heartbeat, next_op,
                    callback_arg, dispatched, call_result, pending_at_stop >>

\* the futures process_replication_operation made are left unwaited
futures_detached == TRUE

\* every task has ended: Sync mode gets every future, and in every mode the
\* destructor of a future made by std::async waits for its task
futures_joined == futures = {}

\* process_replication_operation returns and the worker goes round its loop
process_return ==
    /\ worker.pc = "collect"
    /\ futures_joined
    /\ worker' = [pc |-> "wait", op |-> NoOp]
    /\ UNCHANGED << facadeVars, threadVars, mode, running, pending_operations, nodes, node_order,
                    current_primary, lifecycle, producer, futures, heartbeat, next_op,
                    callback_arg, delivered, dispatched, call_result, pending_at_stop >>

\* more than 3 * heartbeat_interval_ms go by since the heartbeats on record
TimePasses ==
    /\ \E n \in DOMAIN nodes : nodes[n].heartbeat_recent
    /\ nodes' = [n \in DOMAIN nodes |-> [nodes[n] EXCEPT !.heartbeat_recent = FALSE]]
    /\ UNCHANGED << facadeVars, threadVars, mode, running, pending_operations, node_order,
                    current_primary, lifecycle, producer, worker, futures, heartbeat,
                    next_op, callback_arg, delivered, dispatched, call_result,
                    pending_at_stop >>

\* heartbeat_worker: the test of the node against current_primary
heartbeat_check(n) ==
    /\ heartbeat.pc = "sleep"
    /\ running
    /\ n \in DOMAIN nodes
    /\ n # current_primary
    /\ heartbeat' = [pc |-> "probe", node |-> n]
    /\ UNCHANGED << facadeVars, threadVars, mode, running, pending_operations, nodes, node_order,
                    current_primary, lifecycle, producer, worker, futures, next_op,
                    callback_arg, delivered, dispatched, call_result, pending_at_stop >>

\* heartbeat_worker: the test of the heartbeat's age and the stores it leads to
heartbeat_store ==
    LET n == heartbeat.node
    IN  /\ heartbeat.pc = "probe"
        /\ heartbeat' = [pc |-> "sleep", node |-> NoNode]
        /\ nodes' = IF n \notin DOMAIN nodes THEN nodes
                    ELSE IF ~nodes[n].heartbeat_recent
                    THEN [nodes EXCEPT ![n].is_healthy = FALSE]
                    ELSE [nodes EXCEPT ![n].is_healthy = TRUE]
        /\ UNCHANGED << facadeVars, threadVars, mode, running, pending_operations, node_order,
                        current_primary, lifecycle, producer, worker, futures, next_op,
                        callback_arg, delivered, dispatched, call_result,
                        pending_at_stop >>

\* heartbeat_worker leaves its loop
heartbeat_exit ==
    /\ heartbeat.pc = "sleep"
    /\ ~running
    /\ heartbeat' = [pc |-> "exited", node |-> NoNode]
    /\ UNCHANGED << facadeVars, threadVars, mode, running, pending_operations, nodes, node_order,
                    current_primary, lifecycle, producer, worker, futures, next_op,
                    callback_arg, delivered, dispatched, call_result, pending_at_stop >>

RECURSIVE FindNewPrimary(_, _, _)
\* the loop of trigger_failover_internal over nodes from position i on
FindNewPrimary(i, new_primary, highest_priority) ==
    IF i > Len(node_order) THEN new_primary
    ELSE IF nodes[node_order[i]].is_healthy
            /\ nodes[node_order[i]].config.priority > highest_priority
         THEN FindNewPrimary(i + 1, node_order[i], nodes[node_order[i]].config.priority)
         ELSE FindNewPrimary(i + 1, new_primary, highest_priority)

\* trigger_failover_internal that promotes whatever healthy node it meets first
trigger_failover_first ==
    LET healthy == {i \in DOMAIN node_order : nodes[node_order[i]].is_healthy}
        new_primary == IF healthy = {} THEN NoNode
                       ELSE node_order[CHOOSE i \in healthy : \A j \in healthy : i <= j]
    IN  IF new_primary # NoNode /\ new_primary # current_primary
        THEN current_primary' = new_primary /\ callback_arg' = new_primary
        ELSE UNCHANGED current_primary /\ callback_arg' = NoNode

trigger_failover_internal ==
    LET new_primary == FindNewPrimary(1, NoNode, 0 - 1)
    IN  IF new_primary # NoNode /\ new_primary # current_primary
        THEN current_primary' = new_primary /\ callback_arg' = new_primary
        ELSE UNCHANGED current_primary /\ callback_arg' = NoNode

\* ReplicationManager::trigger_failover
trigger_failover ==
    /\ trigger_failover_internal
    /\ UNCHANGED << facadeVars, threadVars, mode, running, pending_operations, nodes, node_order,
                    lifecycle, producer, worker, futures, heartbeat, next_op,
                    delivered, dispatched, call_result, pending_at_stop >>

\* failover_worker, one turn of its loop: the test of running, the sleep and
\* the look at the primary, which is unhealthy
failover_worker ==
    /\ failover = "sleep"
    /\ running
    /\ current_primary \in DOMAIN nodes
    /\ ~nodes[current_primary].is_healthy
    /\ trigger_failover_internal
    /\ UNCHANGED << facadeVars, threadVars, mode, running, pending_operations, nodes, node_order,
                    lifecycle, producer, worker, futures, heartbeat, next_op,
                    delivered, dispatched, call_result, pending_at_stop >>

\* failover_worker leaves its loop; a turn that finds the primary healthy
\* changes nothing
failover_exit ==
    /\ failover = "sleep"
    /\ ~running
    /\ failover' = "exited"
    /\ UNCHANGED << facadeVars, timeVars, callers, lockVars, mode, running, pending_operations, nodes,
                    node_order, current_primary, lifecycle, producer, worker, futures,
                    heartbeat, next_op, callback_arg, delivered, dispatched,
                    call_result, pending_at_stop >>

\* add_replica of a node that is not in the table; the insert may rehash
add_replica(node) ==
    /\ node.node_id \notin DOMAIN nodes
    /\ nodes' = [id \in (DOMAIN nodes) \cup {node.node_id} |->
                    IF id = node.node_id THEN NodeState(node) ELSE nodes[id]]
    /\ node_order' \in IterationOrders((DOMAIN nodes) \cup {node.node_id})
    /\ last_heartbeat_ms' = [id \in (DOMAIN nodes) \cup {node.node_id} |->
                                IF id = node.node_id THEN clock ELSE last_heartbeat_ms[id]]
    /\ UNCHANGED << facadeVars, clock, pass, failover, callers, lockVars, mode, running, pending_operations, current_primary,
                    lifecycle, producer, worker, futures, heartbeat, next_op,
                    callback_arg, delivered, dispatched, call_result, pending_at_stop >>

\* remove_replica of a node of the table that is not the primary
remove_replica(node_id) ==
    /\ node_id \in DOMAIN nodes
    /\ node_id # current_primary
    /\ nodes' = [id \in (DOMAIN nodes) \ {node_id} |-> nodes[id]]
    /\ node_order' = SelectSeq(node_order, LAMBDA id : id # node_id)
    /\ last_heartbeat_ms' = [id \in (DOMAIN nodes) \ {node_id} |-> last_heartbeat_ms[id]]
    /\ UNCHANGED << facadeVars, clock, pass, failover, callers, lockVars, mode, running, pending_operations, current_primary,
                    lifecycle, producer, worker, futures, heartbeat, next_op,
                    callback_arg, delivered, dispatched, call_result, pending_at_stop >>


(***************************************************************************)
(* SpecDelivery: a manager configured as in ReplicationTest (node1 the     *)
(* primary, the others replicas of falling priority) is started, takes     *)
(* replicate_* calls from one caller thread and may be stopped at any      *)
(* moment; the replica table and the primary stay as constructed.          *)
(***************************************************************************)
\* the facade around the manager is not used
FacadeIdle ==
    /\ strategy = "Hash"
    /\ ShardingManager(ShardTable(1))
    /\ BM25Engine(DefaultBM25Config)
    /\ local_shards = << >>
    /\ dimension = 0
    /\ temp_id_generator = TempIdStart
    /\ pc = [t \in Threads |-> "idle"]
    /\ frame = [t \in Threads |-> NoFrame]
    /\ phase = "constructed"
    /\ issued = << >>
    /\ removed = {}
    /\ last = Returned("none", "constructed", << >>, Ok("void"), << >>)

\* the facade and the classes of src/core and src/index are not in use
FacadeUnused == FacadeIdle /\ CoreUnused

ManagerModes == {"None", "Async", "Sync", "SemiSync"}

OperationTypes == {"Add", "Remove", "Update"}

\* ReplicationTest::SetUp: priorities 10, 5, 3, and 1 for the node added later
TestPriority(i) == IF i = 1 THEN 10 ELSE IF i = 2 THEN 5 ELSE IF i = 3 THEN 3 ELSE 1

TestNodes(n) == [i \in 1..n |-> NodeConfig(i, TestPriority(i), i = 1)]

InitDelivery ==
    /\ FacadeUnused
    /\ mode \in ManagerModes
    /\ \E n \in 1..MaxNodes :
          /\ ReplicationManager(TestNodes(n))
          /\ node_order = [i \in 1..n |-> i]

NextDelivery ==
    \/ start
    \/ stop_call
    \/ stop_join
    \/ \E type \in OperationTypes : replicate_call(type)
    \/ replicate_push
    \/ replicate_return
    \/ worker_wait
    \/ process_launch
    \/ \E id \in 1..MaxOps, n \in NodeIds : replicate_to_node(id, n)
    \/ process_return
    \/ TimePasses
    \/ \E n \in NodeIds : heartbeat_check(n)
    \/ heartbeat_store
    \/ heartbeat_exit
    \/ failover_exit

SpecDelivery == InitDelivery /\ [][NextDelivery]_vars

(***************************************************************************)
(* SpecDeliveryFair: the same manager in Async mode, with the replication  *)
(* thread and the tasks it launches scheduled: the worker's waits have a   *)
(* 100 ms timeout and replicate_to_node sleeps 1 ms, so each step that     *)
(* stays possible is taken.                                                *)
(***************************************************************************)
InitAsyncDelivery == InitDelivery /\ mode = "Async"

DeliveryFairness ==
    /\ WF_vars(worker_wait)
    /\ WF_vars(process_launch)
    /\ WF_vars(\E id \in 1..MaxOps, n \in NodeIds : replicate_to_node(id, n))
    /\ WF_vars(process_return)

SpecDeliveryFair == InitAsyncDelivery /\ [][NextDelivery]_vars /\ DeliveryFairness


(***************************************************************************)
(* SpecFailover: a manager built from any configuration of up to MaxNodes  *)
(* nodes (none, or one, flagged is_primary) runs its heartbeat and         *)
(* failover loops while callers use trigger_failover, add_replica and      *)
(* remove_replica.                                                         *)
(***************************************************************************)
\* the configurations: node ids in rising order, any priorities, at most one primary
NodeConfigs ==
    UNION {{[i \in 1..Len(ids) |-> NodeConfig(ids[i], priority[i], i = primary)] :
               priority \in [1..Len(ids) -> Priorities], primary \in 0..Len(ids)} :
           ids \in {order \in UNION {IterationOrders(S) : S \in SUBSET NodeIds} :
                       \A i, j \in DOMAIN order : i < j => order[i] < order[j]}}

InitFailover ==
    /\ FacadeUnused
    /\ mode = "Async"
    /\ \E config_nodes \in NodeConfigs : ReplicationManager(config_nodes)

NextFailover ==
    \/ start
    \/ TimePasses
    \/ \E n \in NodeIds : heartbeat_check(n)
    \/ heartbeat_store
    \/ failover_worker
    \/ trigger_failover
    \/ \E n \in NodeIds, priority \in Priorities : add_replica(NodeConfig(n, priority, FALSE))
    \/ \E n \in NodeIds : remove_replica(n)

SpecFailover == InitFailover /\ [][NextFailover]_vars

(***************************************************************************)
(* SpecHeartbeatFair: the heartbeat loop of a started manager alone, with  *)
(* time going by.  The loop visits every node of the table in each pass    *)
(* and finishes every visit it begins.                                     *)
(***************************************************************************)
NextHeartbeat ==
    \/ start
    \/ TimePasses
    \/ \E n \in NodeIds : heartbeat_check(n)
    \/ heartbeat_store

HeartbeatFairness ==
    /\ WF_vars(start)
    /\ \A n \in NodeIds : SF_vars(heartbeat_check(n))
    /\ WF_vars(heartbeat_store)

SpecHeartbeatFair == InitFailover /\ [][NextHeartbeat]_vars /\ HeartbeatFairness

(***************************************************************************)
(* SpecStopFair: the manager with the wait of replication_worker in its    *)
(* steps.  cv.wait_for(lock, 100 ms, pred) tests the predicate under the   *)
(* mutex, releases the mutex and blocks, and wakes on a notification or    *)
(* when the 100 ms are over; stop writes running and notifies without the  *)
(* mutex, so its notification may come between the test and the block.     *)
(* Every thread that can take a step takes it in the end: the waits and    *)
(* sleeps of the three loops are timed, and replicate_to_node sleeps 1 ms. *)
(* The primary of the test configuration has the greatest priority and is  *)
(* never probed, so the failover loop finds it healthy at every turn and   *)
(* its turns change nothing.                                               *)
(***************************************************************************)
\* wait_for that has no timeout: the thread wakes on a notification only
wait_untimed == FALSE /\ UNCHANGED vars

\* wait_for: the 100 ms are over and the thread tests the predicate again
wait_for_timeout ==
    /\ worker.pc = "blocked"
    /\ worker' = [worker EXCEPT !.pc = "wait"]
    /\ UNCHANGED << facadeVars, threadVars, mode, running, pending_operations, nodes,
                    node_order, current_primary, lifecycle, producer, futures, heartbeat,
                    next_op, callback_arg, delivered, dispatched, call_result,
                    pending_at_stop >>

\* replication_worker under the mutex: the predicate of wait_for, the test of
\* running and the pop
worker_pred ==
    /\ worker.pc = "wait"
    /\ IF ~running
       THEN worker' = [pc |-> "exited", op |-> NoOp] /\ UNCHANGED pending_operations
       ELSE IF pending_operations # << >>
       THEN /\ worker' = [pc |-> "process", op |-> Head(pending_operations)]
            /\ pending_operations' = Tail(pending_operations)
       ELSE worker' = [worker EXCEPT !.pc = "block"] /\ UNCHANGED pending_operations
    /\ UNCHANGED << facadeVars, threadVars, mode, running, nodes, node_order, current_primary,
                    lifecycle, producer, futures, heartbeat, next_op, callback_arg,
                    delivered, dispatched, call_result, pending_at_stop >>

\* wait_for releases the mutex and blocks on the condition variable
worker_block ==
    /\ worker.pc = "block"
    /\ worker' = [worker EXCEPT !.pc = "blocked"]
    /\ UNCHANGED << facadeVars, threadVars, mode, running, pending_operations, nodes,
                    node_order, current_primary, lifecycle, producer, futures, heartbeat,
                    next_op, callback_arg, delivered, dispatched, call_result,
                    pending_at_stop >>

NextStop ==
    \/ start
    \/ stop_call
    \/ stop_join
    \/ \E type \in OperationTypes : replicate_call(type)
    \/ replicate_push
    \/ replicate_return
    \/ worker_pred
    \/ worker_block
    \/ wait_for_timeout
    \/ process_launch
    \/ \E id \in 1..MaxOps, n \in NodeIds : replicate_to_node(id, n)
    \/ process_return
    \/ TimePasses
    \/ \E n \in NodeIds : heartbeat_check(n)
    \/ heartbeat_store
    \/ heartbeat_exit
    \/ failover_exit

StopFairness ==
    /\ WF_vars(stop_join)
    /\ WF_vars(worker_pred)
    /\ WF_vars(worker_block)
    /\ WF_vars(wait_for_timeout)
    /\ WF_vars(process_launch)
    /\ WF_vars(\E id \in 1..MaxOps, n \in NodeIds : replicate_to_node(id, n))
    /\ WF_vars(process_return)
    /\ WF_vars(heartbeat_store)
    /\ WF_vars(heartbeat_exit)
    /\ WF_vars(failover_exit)

\* the manager of the tests with one replica
InitStop ==
    /\ FacadeUnused
    /\ mode = "Async"
    /\ ReplicationManager(TestNodes(2))
    /\ node_order = << 1, 2 >>

SpecStopFair == InitStop /\ [][NextStop]_vars /\ StopFairness

(***************************************************************************)
(* SpecCallers: replicate_add / _remove / _update called from several      *)
(* threads at once.  A call tests running and the mode, builds its         *)
(* operation, reads the clock into the operation's timestamp, and only     *)
(* then takes the mutex for the push.                                      *)
(***************************************************************************)
\* replicate_*: the tests of running and of the mode; the call's id is its number
caller_call(t, type) ==
    LET op == ReplicationOperation(type, next_op + 1)
        tested == replicate(op)
    IN  /\ callers[t].pc = "idle"
        /\ next_op < MaxOps
        /\ next_op' = next_op + 1
        /\ IF tested.queue = pending_operations
           THEN /\ call_result' = CallReturned(op, tested.result)
                /\ UNCHANGED callers
           ELSE /\ callers' = [callers EXCEPT ![t] = [pc |-> "stamp", op |-> op]]
                /\ UNCHANGED call_result
        /\ UNCHANGED << facadeVars, timeVars, failover, lockVars, mode, running, pending_operations,
                        nodes, node_order, current_primary, lifecycle, producer, worker,
                        futures, heartbeat, callback_arg, delivered, dispatched,
                        pending_at_stop >>

\* op->timestamp = get_timestamp_ms()
caller_stamp(t) ==
    /\ callers[t].pc = "stamp"
    /\ callers' = [callers EXCEPT ![t] =
                       [pc |-> "push",
                        op |-> [type |-> callers[t].op.type, id |-> callers[t].op.id,
                                timestamp |-> clock]]]
    /\ UNCHANGED << facadeVars, timeVars, failover, lockVars, mode, running, pending_operations,
                    nodes, node_order, current_primary, lifecycle, producer, worker,
                    futures, heartbeat, next_op, callback_arg, delivered, dispatched,
                    call_result, pending_at_stop >>

\* the push under the mutex
caller_push(t) ==
    /\ callers[t].pc = "push"
    /\ pending_operations' = Append(pending_operations, callers[t].op)
    /\ callers' = [callers EXCEPT ![t].pc = "return"]
    /\ UNCHANGED << facadeVars, timeVars, failover, lockVars, mode, running, nodes, node_order,
                    current_primary, lifecycle, producer, worker, futures, heartbeat,
                    next_op, callback_arg, delivered, dispatched, call_result,
                    pending_at_stop >>

\* cv.notify_one() and the return
caller_return(t) ==
    /\ callers[t].pc = "return"
    /\ call_result' = CallReturned(callers[t].op, Ok("void"))
    /\ callers' = [callers EXCEPT ![t] = [pc |-> "idle", op |-> NoOp]]
    /\ worker' = notified(worker)
    /\ UNCHANGED << facadeVars, timeVars, failover, lockVars, mode, running, pending_operations,
                    nodes, node_order, current_primary, lifecycle, producer, futures,
                    heartbeat, next_op, callback_arg, delivered, dispatched,
                    pending_at_stop >>

\* a millisecond of system_clock goes by
millisecond ==
    /\ clock < MaxStamp
    /\ clock' = clock + 1
    /\ UNCHANGED << facadeVars, last_heartbeat_ms, pass, failover, callers, lockVars, mode, running,
                    pending_operations, nodes, node_order, current_primary, lifecycle,
                    producer, worker, futures, heartbeat, next_op, callback_arg,
                    delivered, dispatched, call_result, pending_at_stop >>

NextCallers ==
    \/ start
    \/ \E t \in Threads, type \in OperationTypes : caller_call(t, type)
    \/ \E t \in Threads : caller_stamp(t)
    \/ \E t \in Threads : caller_push(t)
    \/ \E t \in Threads : caller_return(t)
    \/ millisecond
    \/ worker_pred
    \/ worker_block
    \/ wait_for_timeout
    \/ process_launch
    \/ \E id \in 1..MaxOps, n \in NodeIds : replicate_to_node(id, n)
    \/ process_return

SpecCallers == InitStop /\ [][NextCallers]_vars

(***************************************************************************)
(* SpecHeartbeatPass: the heartbeat loop with the clock it reads.  A pass  *)
(* samples the clock once and walks the node table without the mutex,      *)
(* while callers add and remove replicas and trigger failover.             *)
(***************************************************************************)
\* how long sleep_for(heartbeat_interval_ms) takes: the interval or longer
SleepTimes == {heartbeat_interval_ms, 3 * heartbeat_interval_ms, 3 * heartbeat_interval_ms + 1}

\* elapsed > heartbeat_interval_ms * 3 that also holds at three intervals
timed_out_at_limit(now, last_hb) ==
    \/ last_hb > now
    \/ now - last_hb >= heartbeat_interval_ms * 3

\* elapsed > heartbeat_interval_ms * 3 for elapsed = now - last_hb in uint64_t:
\* with last_hb later than now the difference wraps to 2^64 - (last_hb - now)
timed_out(now, last_hb) ==
    \/ last_hb > now
    \/ now - last_hb > heartbeat_interval_ms * 3

\* heartbeat_worker: sleep_for returns and the pass samples the clock
heartbeat_sleep(d) ==
    /\ heartbeat.pc = "sleep"
    /\ pass.pc = "sleep"
    /\ running
    /\ clock + d <= MaxClock
    /\ clock' = clock + d
    /\ pass' = [pc |-> "visit", now |-> clock + d, i |-> 1, node |-> NoNode]
    /\ UNCHANGED << facadeVars, last_heartbeat_ms, failover, callers, lockVars, mode, running, pending_operations,
                    nodes, node_order, current_primary, lifecycle, producer, worker,
                    futures, heartbeat, next_op, callback_arg, delivered, dispatched,
                    call_result, pending_at_stop >>

\* heartbeat_worker: the loop moves to the next node and tests it against
\* current_primary, or the pass ends
heartbeat_visit ==
    /\ pass.pc = "visit"
    /\ pass' = IF pass.i > Len(node_order) THEN NoPass
               ELSE IF node_order[pass.i] = current_primary
                    THEN [pass EXCEPT !.i = pass.i + 1]
                    ELSE [pass EXCEPT !.pc = "probe", !.node = node_order[pass.i]]
    /\ UNCHANGED << facadeVars, clock, last_heartbeat_ms, failover, callers, lockVars, mode, running,
                    pending_operations, nodes, node_order, current_primary, lifecycle,
                    producer, worker, futures, heartbeat, next_op, callback_arg,
                    delivered, dispatched, call_result, pending_at_stop >>

\* heartbeat_worker: the age of the node's heartbeat and the stores it leads
\* to; a node erased meanwhile is written to in freed memory
heartbeat_probe ==
    LET n == pass.node
    IN  /\ pass.pc = "probe"
        /\ pass' = [pass EXCEPT !.pc = "visit", !.i = pass.i + 1, !.node = NoNode]
        /\ IF n \notin DOMAIN nodes
           THEN UNCHANGED << nodes, last_heartbeat_ms >>
           ELSE IF timed_out(pass.now, last_heartbeat_ms[n])
           THEN /\ nodes' = [nodes EXCEPT ![n].is_healthy = FALSE,
                                          ![n].heartbeat_recent = FALSE]
                /\ UNCHANGED last_heartbeat_ms
           ELSE /\ nodes' = [nodes EXCEPT ![n].is_healthy = TRUE,
                                          ![n].heartbeat_recent = TRUE]
                /\ last_heartbeat_ms' = [last_heartbeat_ms EXCEPT ![n] = pass.now]
        /\ UNCHANGED << facadeVars, clock, failover, callers, lockVars, mode, running, pending_operations, node_order,
                        current_primary, lifecycle, producer, worker, futures, heartbeat,
                        next_op, callback_arg, delivered, dispatched, call_result,
                        pending_at_stop >>

\* a millisecond goes by while the pass is on its way
tick ==
    /\ pass.pc # "sleep"
    /\ clock = pass.now
    /\ clock < MaxClock
    /\ clock' = clock + 1
    /\ UNCHANGED << facadeVars, last_heartbeat_ms, pass, failover, callers, lockVars, mode, running,
                    pending_operations, nodes, node_order, current_primary, lifecycle,
                    producer, worker, futures, heartbeat, next_op, callback_arg,
                    delivered, dispatched, call_result, pending_at_stop >>

\* the priorities of the replica callers add: below and above the primary's
AddedPriorities == {1, 20}

InitHeartbeatPass ==
    /\ FacadeUnused
    /\ mode = "Async"
    /\ ReplicationManager(TestNodes(2))

NextHeartbeatPass ==
    \/ start
    \/ \E d \in SleepTimes : heartbeat_sleep(d)
    \/ heartbeat_visit
    \/ heartbeat_probe
    \/ tick
    \/ trigger_failover
    \/ \E priority \in AddedPriorities : add_replica(NodeConfig(3, priority, FALSE))
    \/ \E n \in NodeIds : remove_replica(n)

SpecHeartbeatPass == InitHeartbeatPass /\ [][NextHeartbeatPass]_vars

(***************************************************************************)
(* SpecCallback: trigger_failover and the failover loop with the mutex     *)
(* they hold, and a failover callback that calls back into the manager.    *)
(* std::mutex is not recursive: lock() on a mutex the calling thread owns  *)
(* is undefined; the thread blocks for ever, or lock() throws              *)
(* std::system_error where the library detects the deadlock.               *)
(***************************************************************************)
\* the threads that come to trigger_failover_internal
Invokers == {"caller", "failover_thread"}

\* what the registered callback calls on the manager
CallbackMethods == {"get_primary_node", "replicate_add"}

\* the owner of the mutex at the call of failover_callback when the mutex
\* is released before the call
released_for_callback(who) == NoThread

\* the owner of the mutex at the call of failover_callback: the lock_guard of
\* trigger_failover or of failover_worker is still in scope
held_at_callback(who) == who

\* std::lock_guard lock(mutex) of trigger_failover and of failover_worker
failover_lock(who) ==
    /\ invoker.pc \in {"idle", "returned", "thrown"}
    /\ who = "failover_thread" => failover = "sleep" /\ running
    /\ mutex = NoThread
    /\ mutex' = who
    /\ invoker' = [pc |-> "locked", who |-> who, method |-> "none", relocked |-> FALSE]
    /\ UNCHANGED << facadeVars, timeVars, failover, callers, mode, running,
                    pending_operations, nodes, node_order, current_primary, lifecycle,
                    producer, worker, futures, heartbeat, next_op, callback_arg,
                    delivered, dispatched, call_result, pending_at_stop >>

\* trigger_failover_internal up to the call of failover_callback; the
\* failover loop calls it when the primary is unhealthy
failover_promote ==
    /\ invoker.pc = "locked"
    /\ IF invoker.who = "failover_thread"
          /\ ~(current_primary \in DOMAIN nodes /\ ~nodes[current_primary].is_healthy)
       THEN /\ UNCHANGED << current_primary, callback_arg >>
            /\ invoker' = [invoker EXCEPT !.pc = "unlock"]
            /\ UNCHANGED mutex
       ELSE /\ trigger_failover_internal
            /\ IF callback_arg' # NoNode
               THEN /\ invoker' = [invoker EXCEPT !.pc = "callback"]
                    /\ mutex' = held_at_callback(invoker.who)
               ELSE /\ invoker' = [invoker EXCEPT !.pc = "unlock"]
                    /\ UNCHANGED mutex
    /\ UNCHANGED << facadeVars, timeVars, failover, callers, mode, running,
                    pending_operations, nodes, node_order, lifecycle, producer, worker,
                    futures, heartbeat, next_op, delivered, dispatched, call_result,
                    pending_at_stop >>

\* failover_callback(new_primary): the callback calls method on the manager.
\* replicate_add returns before the mutex when the manager is not running or
\* replicates nothing; any other call locks the mutex
failover_callback(method, outcome) ==
    /\ invoker.pc = "callback"
    /\ IF method = "replicate_add" /\ (~running \/ mode = "None")
       THEN invoker' = [invoker EXCEPT !.pc = "unlock", !.method = method]
       ELSE IF mutex = NoThread
       THEN invoker' = [invoker EXCEPT !.pc = "unlock", !.method = method,
                                       !.relocked = TRUE]
       ELSE invoker' = [invoker EXCEPT !.pc = outcome, !.method = method,
                                       !.relocked = TRUE]
    /\ mutex' = IF invoker'.pc = "thrown" THEN NoThread ELSE mutex
    /\ UNCHANGED << facadeVars, timeVars, failover, callers, mode, running,
                    pending_operations, nodes, node_order, current_primary, lifecycle,
                    producer, worker, futures, heartbeat, next_op, callback_arg,
                    delivered, dispatched, call_result, pending_at_stop >>

\* the callback has returned: trigger_failover_internal returns, the
\* lock_guard goes out of scope and the call returns
failover_unlock ==
    /\ invoker.pc = "unlock"
    /\ mutex' = NoThread
    /\ invoker' = [invoker EXCEPT !.pc = "returned"]
    /\ UNCHANGED << facadeVars, timeVars, failover, callers, mode, running,
                    pending_operations, nodes, node_order, current_primary, lifecycle,
                    producer, worker, futures, heartbeat, next_op, callback_arg,
                    delivered, dispatched, call_result, pending_at_stop >>

\* what lock() on a mutex the thread owns may do
RelockOutcomes == {"blocked", "thrown"}

InitCallback ==
    /\ FacadeUnused
    /\ mode \in {"None", "Async"}
    /\ ReplicationManager(TestNodes(2))

NextCallback ==
    \/ start
    \/ stop_call
    \/ \E who \in Invokers : failover_lock(who)
    \/ failover_promote
    \/ \E method \in CallbackMethods, outcome \in RelockOutcomes :
           failover_callback(method, outcome)
    \/ failover_unlock
    \/ TimePasses
    \/ \E n \in NodeIds : heartbeat_check(n)
    \/ heartbeat_store
    \/ \E priority \in AddedPriorities :
           mutex = NoThread /\ add_replica(NodeConfig(3, priority, FALSE))
    \/ \E n \in NodeIds : mutex = NoThread /\ remove_replica(n)

SpecCallback == InitCallback /\ [][NextCallback]_vars

(***************************************************************************)
(* SpecThreadPool: a ThreadPool with its worker threads, a thread that     *)
(* submits tasks and the thread that destroys the pool.  Steps are the     *)
(* critical sections under mutex_, the notifications made outside them,    *)
(* and the run of a task.  cv_.wait tests its predicate under mutex_ and   *)
(* blocks without releasing it in between; a blocked worker wakes when it  *)
(* is notified.  Worker threads that can take a step take it in the end.   *)
(***************************************************************************)
TaskIds == 1..MaxTasks

NoTask == 0

\* ThreadPool::ThreadPool(num_threads): the threads are started
ThreadPool(num_threads) ==
    /\ workers_ = [w \in 1..num_threads |-> [pc |-> "wait", task |-> NoTask]]
    /\ tasks_ = << >>
    /\ stop_ = FALSE
    /\ active_tasks_ = 0
    /\ owner = "alive"
    /\ submitter = "idle"
    /\ accepted = {}
    /\ rejected = {}
    /\ executed = [id \in TaskIds |-> 0]

\* worker_loop that returns as soon as stop_ is set
leaves_at_stop == stop_

\* worker_loop: if (stop_ && tasks_.empty()) return
leaves == stop_ /\ tasks_ = << >>

\* submit: under mutex_ the task is refused when stop_ is set and queued
\* otherwise; the task's id is its number
submit ==
    LET id == Cardinality(accepted \cup rejected) + 1
    IN  /\ owner \in {"alive", "notify", "join"}
        /\ submitter = "idle"
        /\ id \in TaskIds
        /\ IF stop_
           THEN /\ rejected' = rejected \cup {id}
                /\ UNCHANGED << tasks_, accepted, submitter >>
           ELSE /\ tasks_' = Append(tasks_, id)
                /\ accepted' = accepted \cup {id}
                /\ submitter' = "notify"
                /\ UNCHANGED rejected
        /\ UNCHANGED << workers_, stop_, active_tasks_, owner, executed >>
        /\ UNCHANGED << flatVars, kernelVars, bm25Vars, shardingVars, managerVars,
                        sharding_running, mode, running, pending_operations,
                        local_shards, dimension, temp_id_generator, pc, frame, phase,
                        issued, removed, last >>

\* submit: cv_.notify_one() wakes one blocked worker, if there is one
submit_notify ==
    /\ submitter = "notify"
    /\ submitter' = "idle"
    /\ \/ \E w \in DOMAIN workers_ :
             /\ workers_[w].pc = "blocked"
             /\ workers_' = [workers_ EXCEPT ![w].pc = "wait"]
       \/ /\ \A w \in DOMAIN workers_ : workers_[w].pc # "blocked"
          /\ UNCHANGED workers_
    /\ UNCHANGED << tasks_, stop_, active_tasks_, owner, accepted, rejected, executed >>
    /\ UNCHANGED << flatVars, kernelVars, bm25Vars, shardingVars, managerVars,
                    sharding_running, mode, running, pending_operations,
                    local_shards, dimension, temp_id_generator, pc, frame, phase,
                    issued, removed, last >>

\* worker_loop under mutex_: the wait, the test for leaving and the pop
worker_loop(w) ==
    /\ workers_[w].pc = "wait"
    /\ IF ~(stop_ \/ tasks_ # << >>)
       THEN /\ workers_' = [workers_ EXCEPT ![w].pc = "blocked"]
            /\ UNCHANGED << tasks_, active_tasks_ >>
       ELSE IF leaves
       THEN /\ workers_' = [workers_ EXCEPT ![w].pc = "exited"]
            /\ UNCHANGED << tasks_, active_tasks_ >>
       ELSE /\ workers_' = [workers_ EXCEPT ![w] = [pc |-> "run", task |-> Head(tasks_)]]
            /\ tasks_' = Tail(tasks_)
            /\ active_tasks_' = active_tasks_ + 1
    /\ UNCHANGED << stop_, owner, submitter, accepted, rejected, executed >>
    /\ UNCHANGED << flatVars, kernelVars, bm25Vars, shardingVars, managerVars,
                    sharding_running, mode, running, pending_operations,
                    local_shards, dimension, temp_id_generator, pc, frame, phase,
                    issued, removed, last >>

\* worker_loop: task()
worker_task(w) ==
    /\ workers_[w].pc = "run"
    /\ executed' = [executed EXCEPT ![workers_[w].task] = executed[workers_[w].task] + 1]
    /\ workers_' = [workers_ EXCEPT ![w].pc = "finish"]
    /\ UNCHANGED << tasks_, stop_, active_tasks_, owner, submitter, accepted, rejected >>
    /\ UNCHANGED << flatVars, kernelVars, bm25Vars, shardingVars, managerVars,
                    sharding_running, mode, running, pending_operations,
                    local_shards, dimension, temp_id_generator, pc, frame, phase,
                    issued, removed, last >>

\* worker_loop under mutex_ after the task: --active_tasks_
worker_finish(w) ==
    /\ workers_[w].pc = "finish"
    /\ active_tasks_' = active_tasks_ - 1
    /\ workers_' = [workers_ EXCEPT ![w] = [pc |-> "wait", task |-> NoTask]]
    /\ UNCHANGED << tasks_, stop_, owner, submitter, accepted, rejected, executed >>
    /\ UNCHANGED << flatVars, kernelVars, bm25Vars, shardingVars, managerVars,
                    sharding_running, mode, running, pending_operations,
                    local_shards, dimension, temp_id_generator, pc, frame, phase,
                    issued, removed, last >>

\* ~ThreadPool: stop_ = true under mutex_
destroy_stop ==
    /\ owner = "alive"
    /\ stop_' = TRUE
    /\ owner' = "notify"
    /\ UNCHANGED << workers_, tasks_, active_tasks_, submitter, accepted, rejected,
                    executed >>
    /\ UNCHANGED << flatVars, kernelVars, bm25Vars, shardingVars, managerVars,
                    sharding_running, mode, running, pending_operations,
                    local_shards, dimension, temp_id_generator, pc, frame, phase,
                    issued, removed, last >>

\* ~ThreadPool: cv_.notify_all() wakes every blocked worker
destroy_notify ==
    /\ owner = "notify"
    /\ owner' = "join"
    /\ workers_' = [w \in DOMAIN workers_ |->
                       IF workers_[w].pc = "blocked"
                       THEN [workers_[w] EXCEPT !.pc = "wait"] ELSE workers_[w]]
    /\ UNCHANGED << tasks_, stop_, active_tasks_, submitter, accepted, rejected,
                    executed >>
    /\ UNCHANGED << flatVars, kernelVars, bm25Vars, shardingVars, managerVars,
                    sharding_running, mode, running, pending_operations,
                    local_shards, dimension, temp_id_generator, pc, frame, phase,
                    issued, removed, last >>

\* ~ThreadPool: every worker has been joined and the destructor returns
destroy_join ==
    /\ owner = "join"
    /\ \A w \in DOMAIN workers_ : workers_[w].pc = "exited"
    /\ owner' = "destroyed"
    /\ UNCHANGED << workers_, tasks_, stop_, active_tasks_, submitter, accepted,
                    rejected, executed >>
    /\ UNCHANGED << flatVars, kernelVars, bm25Vars, shardingVars, managerVars,
                    sharding_running, mode, running, pending_operations,
                    local_shards, dimension, temp_id_generator, pc, frame, phase,
                    issued, removed, last >>

InitThreadPool ==
    /\ FacadeIdle
    /\ mode = "None"
    /\ ReplicationManager(FacadeNodes)
    /\ FlatIndexUnused
    /\ KernelsUnused
    /\ ThreadPool(NumWorkers)

NextThreadPool ==
    \/ submit
    \/ submit_notify
    \/ \E w \in 1..NumWorkers : worker_loop(w)
    \/ \E w \in 1..NumWorkers : worker_task(w)
    \/ \E w \in 1..NumWorkers : worker_finish(w)
    \/ destroy_stop
    \/ destroy_notify
    \/ destroy_join

ThreadPoolFairness ==
    /\ \A w \in 1..NumWorkers : WF_vars(worker_loop(w))
    /\ \A w \in 1..NumWorkers : WF_vars(worker_task(w))
    /\ \A w \in 1..NumWorkers : WF_vars(worker_finish(w))
    /\ WF_vars(submit_notify)
    /\ WF_vars(destroy_notify)

SpecThreadPool == InitThreadPool /\ [][NextThreadPool]_vars /\ ThreadPoolFairness

(***************************************************************************)
(* The distance kernels, in a floating-point format small enough to        *)
(* enumerate: MantissaBits bits of precision, round to nearest with ties   *)
(* to even, integers only, overflow above MaxFinite to infinity, and NaN.  *)
(* A float is a record: class "num" with its value, "inf" with its sign,   *)
(* or "nan".  Signed zeros are not told apart.                             *)
(***************************************************************************)
Num(v) == [class |-> "num", v |-> v]

Inf(sign) == [class |-> "inf", v |-> sign]

NaN == [class |-> "nan", v |-> 0]

Abs(v) == IF v < 0 THEN 0 - v ELSE v

Sign(v) == IF v < 0 THEN 0 - 1 ELSE 1

RECURSIVE Ulp(_)
\* the spacing of the floats around magnitude m
Ulp(m) == IF m < 2 ^ MantissaBits THEN 1 ELSE 2 * Ulp(m \div 2)

\* magnitude m rounded to the nearest float, ties to the even mantissa
RoundMagnitude(m) ==
    LET s == Ulp(m)
        q == m \div s
        r == m % s
    IN  IF 2 * r < s THEN q * s
        ELSE IF 2 * r > s THEN (q + 1) * s
        ELSE IF q % 2 = 0 THEN q * s ELSE (q + 1) * s

\* magnitude m rounded up to a float
CeilMagnitude(m) == IF m % Ulp(m) = 0 THEN m ELSE (m \div Ulp(m) + 1) * Ulp(m)

\* rounding towards minus infinity
fl_down(v) ==
    LET m == IF v < 0 THEN CeilMagnitude(Abs(v)) ELSE (v \div Ulp(v)) * Ulp(v)
    IN  IF m > MaxFinite THEN Inf(Sign(v)) ELSE Num(Sign(v) * m)

\* the float an exact integer result is rounded to
fl(v) ==
    IF RoundMagnitude(Abs(v)) > MaxFinite THEN Inf(Sign(v))
    ELSE Num(Sign(v) * RoundMagnitude(Abs(v)))

\* x * y
Mul(x, y) ==
    IF x.class = "nan" \/ y.class = "nan" THEN NaN
    ELSE IF x.class = "num" /\ y.class = "num" THEN fl(x.v * y.v)
    ELSE IF x.v = 0 \/ y.v = 0 THEN NaN
    ELSE Inf(Sign(x.v) * Sign(y.v))

\* x + y
Add(x, y) ==
    IF x.class = "nan" \/ y.class = "nan" THEN NaN
    ELSE IF x.class = "num" /\ y.class = "num" THEN fl(x.v + y.v)
    ELSE IF x.class = "inf" /\ y.class = "inf"
    THEN IF x.v = y.v THEN x ELSE NaN
    ELSE IF x.class = "inf" THEN x ELSE y

Neg(x) == IF x.class = "nan" THEN NaN ELSE [x EXCEPT !.v = 0 - x.v]

\* x - y
Sub(x, y) == Add(x, Neg(y))

RECURSIVE Root(_, _)
\* the largest r from r0 on with r * r <= v
Root(v, r0) == IF (r0 + 1) * (r0 + 1) > v THEN r0 ELSE Root(v, r0 + 1)

\* std::sqrt(x), rounded to the nearest float
Sqrt(x) ==
    IF x.class = "nan" THEN NaN
    ELSE IF x.v < 0 THEN NaN
    ELSE IF x.class = "inf" THEN x
    ELSE LET r == Root(x.v, 0)
         IN  IF x.v - r * r > r THEN fl(r + 1) ELSE fl(r)

RECURSIVE dot_product_from(_, _, _, _)
\* the loop of scalar::dot_product from index i on
dot_product_from(a, b, i, sum) ==
    IF i > Len(a) THEN sum
    ELSE dot_product_from(a, b, i + 1, Add(sum, Mul(a[i], b[i])))

\* scalar::dot_product, which dot_product dispatches to
dot_product(a, b) == dot_product_from(a, b, 1, Num(0))

RECURSIVE squared_l2_from(_, _, _, _)
\* the loop of scalar::squared_l2 from index i on
squared_l2_from(a, b, i, sum) ==
    IF i > Len(a) THEN sum
    ELSE LET diff == Sub(a[i], b[i])
         IN  squared_l2_from(a, b, i + 1, Add(sum, Mul(diff, diff)))

\* scalar::squared_l2
squared_l2(a, b) == squared_l2_from(a, b, 1, Num(0))

\* squared_euclidean
squared_euclidean(a, b) == squared_l2(a, b)

\* euclidean_distance
euclidean_distance(a, b) == Sqrt(squared_l2(a, b))

(***************************************************************************)
(* SpecKernels: the kernels called on a pair of finite vectors of equal    *)
(* length, in both orders of the arguments.                                *)
(***************************************************************************)
\* the components of the vectors: 24 * 24 overflows, 7 - (-12) is rounded
Components == {Num(0 - 24), Num(0 - 12), Num(0 - 3), Num(0), Num(7), Num(24)}

KernelVectors == UNION {[1..n -> Components] : n \in 0..MaxDim}

\* the three kernels on (kernel_a, kernel_b) and on (kernel_b, kernel_a)
call_kernels ==
    /\ kernel_out = << >>
    /\ kernel_out' = [dot_ab |-> dot_product(kernel_a, kernel_b),
                      dot_ba |-> dot_product(kernel_b, kernel_a),
                      squared_ab |-> squared_euclidean(kernel_a, kernel_b),
                      squared_ba |-> squared_euclidean(kernel_b, kernel_a),
                      euclidean_ab |-> euclidean_distance(kernel_a, kernel_b),
                      euclidean_ba |-> euclidean_distance(kernel_b, kernel_a)]
    /\ UNCHANGED << kernel_a, kernel_b >>
    /\ UNCHANGED << poolVars, flatVars, bm25Vars, shardingVars, managerVars,
                    sharding_running, mode, running, pending_operations,
                    local_shards, dimension, temp_id_generator, pc, frame, phase,
                    issued, removed, last >>

InitKernels ==
    /\ FacadeIdle
    /\ mode = "None"
    /\ ReplicationManager(FacadeNodes)
    /\ ThreadPoolUnused
    /\ FlatIndexUnused
    /\ kernel_a \in KernelVectors
    /\ kernel_b \in KernelVectors
    /\ Len(kernel_a) = Len(kernel_b)
    /\ kernel_out = << >>

NextKernels == call_kernels

SpecKernels == InitKernels /\ [][NextKernels]_vars

(***************************************************************************)
(* FlatIndex.  Vectors are sequences of floats of the format above, with   *)
(* components small enough for the Euclidean and dot-product distances to  *)
(* stay finite; cosine_distance divides and is left out.  A result is the  *)
(* id and the distance; its score is read by no claim.                     *)
(***************************************************************************)
\* FlatIndex::FlatIndex(dimension, distance_type)
FlatIndex(dim, type) ==
    /\ dimension_ = dim
    /\ distance_type_ = type
    /\ vectors_ = << >>
    /\ ids_ = << >>
    /\ flat_last = [op |-> "none"]

\* operator< of float
Less(x, y) ==
    /\ x.class # "nan"
    /\ y.class # "nan"
    /\ IF x.class = "inf" THEN x.v < 0 /\ y # x
       ELSE IF y.class = "inf" THEN y.v > 0
       ELSE x.v < y.v

\* the switch over distance_type_ in search
flat_distance(query, vector) ==
    IF distance_type_ = "Euclidean" THEN euclidean_distance(query, vector)
    ELSE Neg(dot_product(query, vector))

\* operator< of std::pair<float, size_t>
PairLess(p, q) == Less(p[1], q[1]) \/ (~Less(q[1], p[1]) /\ p[2] < q[2])

\* pq.top() of a priority_queue ordered by std::greater: the least pair
Top(pq) == CHOOSE p \in pq : \A q \in pq : q = p \/ PairLess(p, q)

RECURSIVE scan(_, _, _, _)
\* the loop of search over vectors_ from index i on
scan(query, k, i, pq) ==
    IF i > Len(vectors_) THEN pq
    ELSE LET dist == flat_distance(query, vectors_[i])
         IN  IF Cardinality(pq) < k
             THEN scan(query, k, i + 1, pq \cup {<< dist, i >>})
             ELSE IF Less(dist, Top(pq)[1])
             THEN scan(query, k, i + 1, (pq \ {Top(pq)}) \cup {<< dist, i >>})
             ELSE scan(query, k, i + 1, pq)

RECURSIVE drain(_, _)
\* the loop that pops pq into results
drain(pq, results) ==
    IF pq = {} THEN results
    ELSE drain(pq \ {Top(pq)},
               Append(results, [id |-> ids_[Top(pq)[2]], distance |-> Top(pq)[1]]))

\* std::reverse
Reverse(seq) == [i \in 1..Len(seq) |-> seq[Len(seq) + 1 - i]]

\* FlatIndex::search: what it returns
flat_results(query, k) ==
    IF Len(query) # dimension_ THEN << >>
    ELSE Reverse(drain(scan(query, k, 1, {}), << >>))

(***************************************************************************)
(* SpecFlat: a FlatIndex of either distance type, filled by add and        *)
(* searched.                                                               *)
(***************************************************************************)
FlatComponents == {Num(0), Num(3)}

FlatVectors == UNION {[1..n -> FlatComponents] : n \in 1..MaxDim}

FlatDistanceTypes == {"Euclidean", "DotProduct"}

\* FlatIndex::add; the caller numbers the vectors as it adds them
flat_add(vector) ==
    /\ Len(vectors_) < MaxStored
    /\ IF Len(vector) # dimension_
       THEN /\ flat_last' = [op |-> "add", thrown |-> TRUE]
            /\ UNCHANGED << vectors_, ids_ >>
       ELSE /\ vectors_' = Append(vectors_, vector)
            /\ ids_' = Append(ids_, Len(ids_) + 1)
            /\ flat_last' = [op |-> "add", thrown |-> FALSE]
    /\ UNCHANGED << dimension_, distance_type_ >>
    /\ UNCHANGED << poolVars, kernelVars, bm25Vars, shardingVars, managerVars,
                    sharding_running, mode, running, pending_operations,
                    local_shards, dimension, temp_id_generator, pc, frame, phase,
                    issued, removed, last >>

\* FlatIndex::search
flat_search(query, k) ==
    /\ flat_last' = [op |-> "search", query |-> query, k |-> k,
                     results |-> flat_results(query, k)]
    /\ UNCHANGED << dimension_, distance_type_, vectors_, ids_ >>
    /\ UNCHANGED << poolVars, kernelVars, bm25Vars, shardingVars, managerVars,
                    sharding_running, mode, running, pending_operations,
                    local_shards, dimension, temp_id_generator, pc, frame, phase,
                    issued, removed, last >>

InitFlat ==
    /\ FacadeIdle
    /\ mode = "None"
    /\ ReplicationManager(FacadeNodes)
    /\ ThreadPoolUnused
    /\ KernelsUnused
    /\ \E type \in FlatDistanceTypes : FlatIndex(MaxDim, type)

NextFlat ==
    \/ \E vector \in FlatVectors : flat_add(vector)
    \/ \E query \in FlatVectors, k \in 1..MaxK : flat_search(query, k)

SpecFlat == InitFlat /\ [][NextFlat]_vars

(***************************************************************************)
(* SpecReplicaTable: callers edit the replica table of a manager built     *)
(* from any configuration with add_replica and remove_replica; every call, *)
(* failed or not, is recorded with the table it found.                     *)
(***************************************************************************)
\* add_replica that overwrites the entry of a node id it already holds
add_replica_overwrite(node) ==
    /\ nodes' = [id \in (DOMAIN nodes) \cup {node.node_id} |->
                    IF id = node.node_id THEN NodeState(node) ELSE nodes[id]]
    /\ node_order' \in IterationOrders((DOMAIN nodes) \cup {node.node_id})
    /\ last_heartbeat_ms' = [id \in (DOMAIN nodes) \cup {node.node_id} |->
                                IF id = node.node_id THEN clock
                                ELSE last_heartbeat_ms[id]]
    /\ last' = Returned("add_replica", phase, << node >>, Ok("void"), nodes)
    /\ UNCHANGED << bm25Vars, coreVars, clock, pass, failover, callers, lockVars, shardingVars, sharding_running, local_shards, dimension,
                    temp_id_generator, pc, frame, phase, issued, removed,
                    mode, running, pending_operations, current_primary,
                    lifecycle, producer, worker, futures, heartbeat, next_op,
                    callback_arg, delivered, dispatched, call_result, pending_at_stop >>

\* ReplicationManager::add_replica, the whole call with its result
add_replica_call(node) ==
    /\ IF node.node_id \in DOMAIN nodes
       THEN /\ last' = Returned("add_replica", phase, << node >>,
                                Err("Node already exists"), nodes)
            /\ UNCHANGED << nodes, node_order, last_heartbeat_ms >>
       ELSE /\ nodes' = [id \in (DOMAIN nodes) \cup {node.node_id} |->
                            IF id = node.node_id THEN NodeState(node) ELSE nodes[id]]
            /\ node_order' \in IterationOrders((DOMAIN nodes) \cup {node.node_id})
            /\ last_heartbeat_ms' =
                   [id \in (DOMAIN nodes) \cup {node.node_id} |->
                       IF id = node.node_id THEN clock ELSE last_heartbeat_ms[id]]
            /\ last' = Returned("add_replica", phase, << node >>, Ok("void"), nodes)
    /\ UNCHANGED << bm25Vars, coreVars, clock, pass, failover, callers, lockVars, shardingVars, sharding_running, local_shards, dimension,
                    temp_id_generator, pc, frame, phase, issued, removed,
                    mode, running, pending_operations, current_primary,
                    lifecycle, producer, worker, futures, heartbeat, next_op,
                    callback_arg, delivered, dispatched, call_result, pending_at_stop >>

\* ReplicationManager::remove_replica, the whole call with its result
remove_replica_call(node_id) ==
    /\ IF node_id \notin DOMAIN nodes
       THEN /\ last' = Returned("remove_replica", phase, << node_id >>,
                                Err("Node not found"), nodes)
            /\ UNCHANGED << nodes, node_order, last_heartbeat_ms >>
       ELSE IF node_id = current_primary
       THEN /\ last' = Returned("remove_replica", phase, << node_id >>,
                                Err("Cannot remove primary node"), nodes)
            /\ UNCHANGED << nodes, node_order, last_heartbeat_ms >>
       ELSE /\ nodes' = [id \in (DOMAIN nodes) \ {node_id} |-> nodes[id]]
            /\ node_order' = SelectSeq(node_order, LAMBDA id : id # node_id)
            /\ last_heartbeat_ms' =
                   [id \in (DOMAIN nodes) \ {node_id} |-> last_heartbeat_ms[id]]
            /\ last' = Returned("remove_replica", phase, << node_id >>, Ok("void"), nodes)
    /\ UNCHANGED << bm25Vars, coreVars, clock, pass, failover, callers, lockVars, shardingVars, sharding_running, local_shards, dimension,
                    temp_id_generator, pc, frame, phase, issued, removed,
                    mode, running, pending_operations, current_primary,
                    lifecycle, producer, worker, futures, heartbeat, next_op,
                    callback_arg, delivered, dispatched, call_result, pending_at_stop >>

NextReplicaTable ==
    \/ \E n \in NodeIds, priority \in Priorities :
           add_replica_call(NodeConfig(n, priority, FALSE))
    \/ \E n \in NodeIds : remove_replica_call(n)

SpecReplicaTable == InitFailover /\ [][NextReplicaTable]_vars

(***************************************************************************)
(* SpecLifecycle: one caller starts and stops the two managers, in any     *)
(* order and any number of times; no operation is in flight, so stop finds *)
(* the threads idle and its joins return.  Every call is recorded with its *)
(* result and the running flag it found.                                   *)
(***************************************************************************)
\* ReplicationManager::start that does not test the running flag
replication_start_unchecked ==
    /\ running' = TRUE
    /\ lifecycle' = "running"
    /\ worker' = [pc |-> "wait", op |-> NoOp]
    /\ heartbeat' = [pc |-> "sleep", node |-> NoNode]
    /\ failover' = "sleep"
    /\ last' = Returned("ReplicationManager::start", phase, << >>, Ok("void"), running)
    /\ UNCHANGED << bm25Vars, coreVars, timeVars, callers, lockVars, shardingVars, sharding_running, local_shards, dimension,
                    temp_id_generator, pc, frame, phase, issued, removed,
                    mode, pending_operations, nodes, node_order, current_primary,
                    producer, futures, next_op, callback_arg, delivered, dispatched,
                    call_result, pending_at_stop >>

\* ReplicationManager::start, the whole call
replication_start ==
    /\ IF running
       THEN /\ last' = Returned("ReplicationManager::start", phase, << >>,
                                Err("ReplicationManager already running"), running)
            /\ UNCHANGED << running, lifecycle, worker, heartbeat, failover >>
       ELSE /\ running' = TRUE
            /\ lifecycle' = "running"
            /\ worker' = [pc |-> "wait", op |-> NoOp]
            /\ heartbeat' = [pc |-> "sleep", node |-> NoNode]
            /\ failover' = "sleep"
            /\ last' = Returned("ReplicationManager::start", phase, << >>, Ok("void"),
                                running)
    /\ UNCHANGED << bm25Vars, coreVars, timeVars, callers, lockVars, shardingVars, sharding_running, local_shards, dimension,
                    temp_id_generator, pc, frame, phase, issued, removed,
                    mode, pending_operations, nodes, node_order, current_primary,
                    producer, futures, next_op, callback_arg, delivered, dispatched,
                    call_result, pending_at_stop >>

\* ReplicationManager::stop, the whole call: the flag, the notify and the joins
replication_stop ==
    /\ IF ~running
       THEN /\ last' = Returned("ReplicationManager::stop", phase, << >>,
                                Err("ReplicationManager not running"), running)
            /\ UNCHANGED << running, lifecycle, worker, heartbeat, failover >>
       ELSE /\ running' = FALSE
            /\ lifecycle' = "stopped"
            /\ worker' = [pc |-> "exited", op |-> NoOp]
            /\ heartbeat' = [pc |-> "exited", node |-> NoNode]
            /\ failover' = "exited"
            /\ last' = Returned("ReplicationManager::stop", phase, << >>, Ok("void"),
                                running)
    /\ UNCHANGED << bm25Vars, coreVars, timeVars, callers, lockVars, shardingVars, sharding_running, local_shards, dimension,
                    temp_id_generator, pc, frame, phase, issued, removed,
                    mode, pending_operations, nodes, node_order, current_primary,
                    producer, futures, next_op, callback_arg, delivered, dispatched,
                    call_result, pending_at_stop >>

\* ShardingManager::start
sharding_start ==
    /\ IF sharding_running
       THEN /\ last' = Returned("ShardingManager::start", phase, << >>,
                                Err("ShardingManager already running"), sharding_running)
            /\ UNCHANGED sharding_running
       ELSE /\ sharding_running' = TRUE
            /\ last' = Returned("ShardingManager::start", phase, << >>, Ok("void"),
                                sharding_running)
    /\ UNCHANGED << bm25Vars, coreVars, managerVars, shardingVars, mode, running, pending_operations,
                    local_shards, dimension, temp_id_generator, pc, frame, phase,
                    issued, removed >>

\* ShardingManager::stop
sharding_stop ==
    /\ IF ~sharding_running
       THEN /\ last' = Returned("ShardingManager::stop", phase, << >>,
                                Err("ShardingManager not running"), sharding_running)
            /\ UNCHANGED sharding_running
       ELSE /\ sharding_running' = FALSE
            /\ last' = Returned("ShardingManager::stop", phase, << >>, Ok("void"),
                                sharding_running)
    /\ UNCHANGED << bm25Vars, coreVars, managerVars, shardingVars, mode, running, pending_operations,
                    local_shards, dimension, temp_id_generator, pc, frame, phase,
                    issued, removed >>

NextLifecycle ==
    \/ replication_start
    \/ replication_stop
    \/ sharding_start
    \/ sharding_stop

SpecLifecycle == Init /\ [][NextLifecycle]_vars

(***************************************************************************)
(* SpecSharding: a ShardingManager built with any strategy and a table of  *)
(* 0 to MaxShards shards; one caller adds and removes shards and starts    *)
(* and stops the manager.  get_shard_for_id, get_shard_for_key and         *)
(* get_all_shards are const and are read off the state.                    *)
(***************************************************************************)
\* what a call of add_shard or remove_shard finds: the table and the routing
Routing ==
    [shards |-> get_all_shards.value,
     by_id |-> [id \in RoutedIds |-> get_shard_for_id(id)]]

\* add_shard that does not look for the shard id in the table
add_shard_unchecked(shard) ==
    /\ config_shards' = Append(config_shards, shard)
    /\ shard_stats' = shard_stats \cup {shard.shard_id}
    /\ virtual_ring' = IF strategy = "Consistent" THEN impl_config_shards
                       ELSE virtual_ring
    /\ last' = Returned("add_shard", phase, << shard.shard_id >>, Ok("void"), Routing)
    /\ UNCHANGED << bm25Vars, coreVars, managerVars, strategy, impl_config_shards, sharding_running, mode,
                    running, pending_operations, local_shards, dimension,
                    temp_id_generator, pc, frame, phase, issued, removed >>

\* ShardingManager::add_shard; the ring is rebuilt from Impl::config
add_shard(shard) ==
    /\ IF \E i \in DOMAIN config_shards : config_shards[i].shard_id = shard.shard_id
       THEN /\ last' = Returned("add_shard", phase, << shard.shard_id >>,
                                Err("Shard already exists"), Routing)
            /\ UNCHANGED << config_shards, shard_stats, virtual_ring >>
       ELSE /\ config_shards' = Append(config_shards, shard)
            /\ shard_stats' = shard_stats \cup {shard.shard_id}
            /\ virtual_ring' = IF strategy = "Consistent" THEN impl_config_shards
                               ELSE virtual_ring
            /\ last' = Returned("add_shard", phase, << shard.shard_id >>, Ok("void"),
                                Routing)
    /\ UNCHANGED << bm25Vars, coreVars, managerVars, strategy, impl_config_shards, sharding_running, mode,
                    running, pending_operations, local_shards, dimension,
                    temp_id_generator, pc, frame, phase, issued, removed >>

\* ShardingManager::remove_shard; the ring is rebuilt from Impl::config
remove_shard(shard_id) ==
    /\ IF \A i \in DOMAIN config_shards : config_shards[i].shard_id # shard_id
       THEN /\ last' = Returned("remove_shard", phase, << shard_id >>,
                                Err("Shard not found"), Routing)
            /\ UNCHANGED << config_shards, shard_stats, virtual_ring >>
       ELSE /\ config_shards' = SelectSeq(config_shards, LAMBDA c : c.shard_id # shard_id)
            /\ shard_stats' = shard_stats \ {shard_id}
            /\ virtual_ring' = IF strategy = "Consistent" THEN impl_config_shards
                               ELSE virtual_ring
            /\ last' = Returned("remove_shard", phase, << shard_id >>, Ok("void"), Routing)
    /\ UNCHANGED << bm25Vars, coreVars, managerVars, strategy, impl_config_shards, sharding_running, mode,
                    running, pending_operations, local_shards, dimension,
                    temp_id_generator, pc, frame, phase, issued, removed >>

\* the shard ids callers name: those of the constructor and one more
ShardIds == 0..MaxShards

InitSharding ==
    /\ strategy \in Strategies
    /\ \E n \in 0..MaxShards : ShardingManager(ShardTable(n))
    /\ mode = "None"
    /\ ReplicationManager(FacadeNodes)
    /\ BM25Engine(DefaultBM25Config)
    /\ CoreUnused
    /\ local_shards = << >>
    /\ dimension = 0
    /\ temp_id_generator = TempIdStart
    /\ pc = [t \in Threads |-> "idle"]
    /\ frame = [t \in Threads |-> NoFrame]
    /\ phase = "constructed"
    /\ issued = << >>
    /\ removed = {}
    /\ last = Returned("none", "constructed", << >>, Ok("void"), << >>)

NextSharding ==
    \/ \E i \in ShardIds : add_shard(ShardConfig(i))
    \/ \E i \in ShardIds : remove_shard(i)
    \/ sharding_start
    \/ sharding_stop

SpecSharding == InitSharding /\ [][NextSharding]_vars

(***************************************************************************)
(* SpecBM25: a BM25Engine built with any configuration, and callers of     *)
(* add_document.                                                           *)
(***************************************************************************)
DocIds == 1..MaxDocs

\* the texts callers add: "Cats running", "the cat cat", "glass Glass",
\* "of it" (stop words only) and "walked, cat_s"
Contents ==
    { << "C", "a", "t", "s", " ", "r", "u", "n", "n", "i", "n", "g" >>,
      << "t", "h", "e", " ", "c", "a", "t", " ", "c", "a", "t" >>,
      << "g", "l", "a", "s", "s", " ", "G", "l", "a", "s", "s" >>,
      << "o", "f", " ", "i", "t" >>,
      << "w", "a", "l", "k", "e", "d", ",", " ", "c", "a", "t", "_", "s" >> }

\* add_document that does not look for the id in documents
add_document_unchecked(id, content) ==
    LET terms == process_text(content, bm25_config)
        doc == Document(id, content, terms)
    IN  /\ IF terms = << >>
           THEN /\ last' = Returned("add_document", phase, << id, content >>,
                                    Err("No valid terms in document"), BM25State)
                /\ UNCHANGED << documents, inverted_index, document_frequency,
                                total_documents, total_terms, avg_doc_length >>
           ELSE /\ inverted_index' = push_postings(inverted_index, doc)
                /\ document_frequency' = count_document(document_frequency, doc)
                /\ documents' = [d \in DOMAIN documents \cup {id} |->
                                    IF d = id THEN doc ELSE documents[d]]
                /\ total_documents' = total_documents + 1
                /\ total_terms' = total_terms + Len(terms)
                /\ avg_doc_length' = Quotient(total_terms + Len(terms), total_documents + 1)
                /\ last' = Returned("add_document", phase, << id, content >>, Ok("void"),
                                    BM25State)
        /\ UNCHANGED << bm25_config, coreVars, shardingVars, managerVars, sharding_running, mode,
                        running, pending_operations, local_shards, dimension,
                        temp_id_generator, pc, frame, phase, issued, removed >>

\* BM25Engine::Impl::add_document
add_document(id, content) ==
    LET terms == process_text(content, bm25_config)
        doc == Document(id, content, terms)
    IN  /\ IF id \in DOMAIN documents
           THEN /\ last' = Returned("add_document", phase, << id, content >>,
                                    Err("Document already exists"), BM25State)
                /\ UNCHANGED << documents, inverted_index, document_frequency,
                                total_documents, total_terms, avg_doc_length >>
           ELSE IF terms = << >>
           THEN /\ last' = Returned("add_document", phase, << id, content >>,
                                    Err("No valid terms in document"), BM25State)
                /\ UNCHANGED << documents, inverted_index, document_frequency,
                                total_documents, total_terms, avg_doc_length >>
           ELSE /\ inverted_index' = push_postings(inverted_index, doc)
                /\ document_frequency' = count_document(document_frequency, doc)
                /\ documents' = [d \in DOMAIN documents \cup {id} |->
                                    IF d = id THEN doc ELSE documents[d]]
                /\ total_documents' = total_documents + 1
                /\ total_terms' = total_terms + Len(terms)
                /\ avg_doc_length' = Quotient(total_terms + Len(terms), total_documents + 1)
                /\ last' = Returned("add_document", phase, << id, content >>, Ok("void"),
                                    BM25State)
        /\ UNCHANGED << bm25_config, coreVars, shardingVars, managerVars, sharding_running, mode,
                        running, pending_operations, local_shards, dimension,
                        temp_id_generator, pc, frame, phase, issued, removed >>

InitBM25 ==
    /\ \E config \in BM25Configs : BM25Engine(config)
    /\ CoreUnused
    /\ strategy = "Hash"
    /\ ShardingManager(ShardTable(1))
    /\ mode = "None"
    /\ ReplicationManager(FacadeNodes)
    /\ local_shards = << >>
    /\ dimension = 0
    /\ temp_id_generator = TempIdStart
    /\ pc = [t \in Threads |-> "idle"]
    /\ frame = [t \in Threads |-> NoFrame]
    /\ phase = "constructed"
    /\ issued = << >>
    /\ removed = {}
    /\ last = Returned("none", "constructed", << >>, Ok("void"), << >>)

NextBM25 == \E id \in DocIds, content \in Contents : add_document(id, content)

SpecBM25 == InitBM25 /\ [][NextBM25]_vars

(***************************************************************************)
(* BM25Engine::Impl::search.  A double is the fraction it is the value of, *)
(* until std::log is taken; a logarithm and the scores are kept in units   *)
(* of 2^-ScoreBits, rounded towards zero.                                  *)
(***************************************************************************)
\* the double of an integer
Whole(n) == Quotient(n, 1)

\* x + y, x - y (for x >= y), x * y and x / y on doubles
Plus(x, y) == Quotient(x.num * y.den + y.num * x.den, x.den * y.den)

Minus(x, y) == Quotient(x.num * y.den - y.num * x.den, x.den * y.den)

Times(x, y) == Quotient(x.num * y.num, x.den * y.den)

Over(x, y) == Quotient(x.num * y.den, x.den * y.num)

\* 1.0 in units of 2^-ScoreBits
One == 2 ^ ScoreBits

RECURSIVE LogSeries(_, _, _)
\* z^(2i+1)/(2i+1) + z^(2i+3)/(2i+3) + ..., with power = z^(2i+1) and square = z^2
LogSeries(power, square, i) ==
    IF power = 0 THEN 0
    ELSE power \div (2 * i + 1) + LogSeries((power * square) \div One, square, i + 1)

\* std::log(x) for x >= 1: 2 * atanh((x - 1) / (x + 1))
Log(x) ==
    LET z == ((x.num - x.den) * One) \div (x.num + x.den)
    IN  2 * LogSeries(z, (z * z) \div One, 0)

\* idf = std::log((total_documents - df + 0.5) / (df + 0.5) + 1.0)
idf(N, df_) ==
    Log(Plus(Over(Quotient(2 * (N - df_) + 1, 2), Quotient(2 * df_ + 1, 2)), Whole(1)))

\* score = idf * (numerator / denominator) for one posting of doc
posting_score(term_idf, tf, doc) ==
    LET numerator == Times(Whole(tf), Plus(bm25_config.k1, Whole(1)))
        denominator ==
            Plus(Whole(tf),
                 Times(bm25_config.k1,
                       Plus(Minus(Whole(1), bm25_config.b),
                            Over(Times(bm25_config.b, Whole(doc.length)), avg_doc_length))))
        ratio == Over(numerator, denominator)
    IN  (term_idf * ratio.num) \div ratio.den

RECURSIVE score_postings(_, _, _, _)
\* the loop over the postings of term from the j-th on: scores[doc_id] += score
\* and matched_terms[doc_id].push_back(term)
score_postings(scores, term, postings, j) ==
    IF j > Len(postings) THEN scores
    ELSE LET doc_id == postings[j][1]
             tf == postings[j][2]
             score == posting_score(idf(total_documents, document_frequency[term]), tf,
                                    documents[doc_id])
             before == IF doc_id \in DOMAIN scores THEN scores[doc_id]
                       ELSE [score |-> 0, matched_terms |-> << >>]
         IN  score_postings([d \in DOMAIN scores \cup {doc_id} |->
                                IF d = doc_id
                                THEN [score |-> before.score + score,
                                      matched_terms |-> Append(before.matched_terms, term)]
                                ELSE scores[d]],
                            term, postings, j + 1)

RECURSIVE score_terms(_, _, _)
\* the loop over query_terms from the i-th on
score_terms(scores, query_terms, i) ==
    IF i > Len(query_terms) THEN scores
    ELSE IF query_terms[i] \notin DOMAIN inverted_index
    THEN score_terms(scores, query_terms, i + 1)
    ELSE score_terms(score_postings(scores, query_terms[i],
                                    inverted_index[query_terms[i]], 1),
                     query_terms, i + 1)

\* search keeps every document whatever its score
meets_any(score, min_score) == TRUE

\* if (score >= min_score)
meets_min_score(score, min_score) == score >= min_score

\* the results pushed for the entries of scores, in no order
BM25Results(scores, min_score) ==
    {[id |-> d, score |-> scores[d].score, matched_terms |-> scores[d].matched_terms] :
        d \in {e \in DOMAIN scores : meets_min_score(scores[e].score, min_score)}}

\* BM25Result::operator<: the greater score first, the lesser id first among
\* equal scores
BM25ResultLess(x, y) == x.score > y.score \/ (x.score = y.score /\ x.id < y.id)

RECURSIVE sort_results(_)
\* std::sort(results.begin(), results.end())
sort_results(results) ==
    IF results = {} THEN << >>
    ELSE LET first == CHOOSE x \in results :
                          \A y \in results \ {x} : BM25ResultLess(x, y)
         IN  << first >> \o sort_results(results \ {first})

\* if (results.size() > k) results.resize(k)
resize(results, k) == IF Len(results) > k THEN SubSeq(results, 1, k) ELSE results

\* what search returns
bm25_results(query, k, min_score) ==
    LET query_terms == process_text(query, bm25_config)
    IN  IF total_documents = 0 THEN Ok(<< >>)
        ELSE IF query_terms = << >> THEN Err("No valid terms in query")
        ELSE Ok(resize(sort_results(BM25Results(score_terms(<< >>, query_terms, 1),
                                                min_score)), k))

\* BM25Engine::Impl::search
bm25_search(query, k, min_score) ==
    /\ last' = Returned("search", phase, << query, k, min_score >>,
                        bm25_results(query, k, min_score), BM25State)
    /\ UNCHANGED << bm25Vars, coreVars, shardingVars, managerVars, sharding_running, mode,
                    running, pending_operations, local_shards, dimension,
                    temp_id_generator, pc, frame, phase, issued, removed >>

(***************************************************************************)
(* SpecBM25Search: an engine with the default text processing and one of   *)
(* two (k1, b), and callers of add_document and search.                    *)
(***************************************************************************)
\* the configurations: k1 = 1.2 with b = 0.75, and k1 = 2 with b = 0
SearchConfigs ==
    {[case_sensitive |-> FALSE, use_stemming |-> TRUE, min_term_length |-> 2,
      k1 |-> Quotient(6, 5), b |-> Quotient(3, 4)],
     [case_sensitive |-> FALSE, use_stemming |-> TRUE, min_term_length |-> 2,
      k1 |-> Whole(2), b |-> Whole(0)]}

\* the texts callers add: "Cats running", "the cat cat" and "walked"
SearchContents ==
    { << "C", "a", "t", "s", " ", "r", "u", "n", "n", "i", "n", "g" >>,
      << "t", "h", "e", " ", "c", "a", "t", " ", "c", "a", "t" >>,
      << "w", "a", "l", "k", "e", "d" >> }

\* the queries: "cat", "running cats" and "of it"
Queries ==
    { << "c", "a", "t" >>,
      << "r", "u", "n", "n", "i", "n", "g", " ", "c", "a", "t", "s" >>,
      << "o", "f", " ", "i", "t" >> }

\* the min_score of a search: 0.0, 0.125 and 0.25
MinScores == {0, One \div 8, One \div 4}

InitBM25Search ==
    /\ \E config \in SearchConfigs : BM25Engine(config)
    /\ CoreUnused
    /\ strategy = "Hash"
    /\ ShardingManager(ShardTable(1))
    /\ mode = "None"
    /\ ReplicationManager(FacadeNodes)
    /\ local_shards = << >>
    /\ dimension = 0
    /\ temp_id_generator = TempIdStart
    /\ pc = [t \in Threads |-> "idle"]
    /\ frame = [t \in Threads |-> NoFrame]
    /\ phase = "constructed"
    /\ issued = << >>
    /\ removed = {}
    /\ last = Returned("none", "constructed", << >>, Ok("void"), << >>)

NextBM25Search ==
    \/ \E id \in DocIds, content \in SearchContents : add_document(id, content)
    \/ \E query \in Queries, k \in 0..MaxResults, min_score \in MinScores :
           bm25_search(query, k, min_score)

SpecBM25Search == InitBM25Search /\ [][NextBM25Search]_vars

(***************************************************************************)
(* Properties of the facade.                                               *)
(***************************************************************************)
\* the last call was a search that returned a result list
SearchReturned == last.op = "search" /\ last.result.ok

\* the positions of issued whose vector has not been removed
Stored == {i \in DOMAIN issued : issued[i].id \notin removed}

\* the ids of a list of query results
ResultIds(results) == {results[j].id : j \in DOMAIN results}

\* C1: the ids returned by successful adds on one database are pairwise
\* distinct, whatever shards the adds are routed to.
C1_IdsPairwiseDistinct ==
    \A i, j \in DOMAIN issued : i # j => issued[i].id # issued[j].id

\* C2: read-your-writes: a search without predicate whose k is at least the
\* number of stored vectors contains the id of every stored vector.
C2_ReadYourWrites ==
    (SearchReturned /\ ~last.args[3].present /\ last.args[2] >= Cardinality(Stored))
        => \A i \in Stored : issued[i].id \in ResultIds(last.result.value)

\* C3: every id in a search result was returned by an earlier successful add
\* and has not been removed since; an empty database yields an empty list.
C3_SearchReturnsLiveIds ==
    SearchReturned => \A id \in ResultIds(last.result.value) : Live(id)

\* C4: for every id returned by a successful add, get_shard_for_id(id), the
\* shard remove, get and update_metadata route to, is the shard in which add
\* did the local insert.
C4_RoutesToInsertShard ==
    \A i \in DOMAIN issued : get_shard_for_id(issued[i].id) = Ok(issued[i].shard_id)

\* C5: remove(id) returns true exactly when id was stored at the call: false
\* for an id never added or already removed.
C5_RemoveReportsPresence ==
    (last.op = "remove" /\ last.result.ok)
        => (last.result.value <=> last.seen.present)

\* C6: an add, remove, update_metadata or search issued after close has
\* returned fails.
C6_ClosedFacadeFails ==
    (last.phase = "closed" /\ last.op \in {"add", "remove", "update_metadata", "search"})
        => ~last.result.ok

\* the last call was an add rejected for its dimension on the initialized database
AddRejected ==
    /\ last.op = "add"
    /\ last.phase # "constructed"
    /\ ~last.result.ok
    /\ last.args[1] # dimension

\* an add of a vector whose dimension is not the database's returns an error
\* and leaves everything but the record of the call as it was
RejectsMismatch ==
    \A d \in Dims, m \in MetadataValues :
        (phase # "constructed" /\ d # dimension /\ add_call(Caller, d, m))
            => /\ last'.op = "add" /\ ~last'.result.ok
               /\ UNCHANGED << bm25Vars, coreVars, managerVars, shardingVars, sharding_running, mode, running,
                               pending_operations, local_shards, dimension,
                               temp_id_generator, pc, frame, phase, issued, removed >>

\* the add that follows a rejected one, which passed the check, returns an id
AcceptsAfterReject ==
    (AddRejected /\ pc[Caller] # "idle" /\ pc'[Caller] = "idle")
        => last'.op = "add" /\ last'.result.ok

\* C7: add with a vector of the wrong dimension fails and changes no state (no
\* shard counter, no replication operation); a following add with the right
\* dimension succeeds.
C7_DimensionMismatchRejected == [][RejectsMismatch /\ AcceptsAfterReject]_vars

\* an add has returned an id, the next was rejected, and the add that follows
\* it is about to push its operation and return
C7_Witness ==
    /\ AddRejected
    /\ pc[Caller] = "push"
    /\ frame[Caller].vector_dim = dimension
    /\ issued # << >>

\* how often the score v occurs in a list of query results
ScoreCount(results, v) == Cardinality({j \in DOMAIN results : results[j].score = v})

\* C8: search without predicate returns the min(k, n) highest-scored entries
\* of the concatenated per-shard results, in non-increasing score order, and
\* never more than k entries.
C8_TopKOfConcatenation ==
    (SearchReturned /\ ~last.args[3].present)
        => LET k == last.args[2]
               res == last.result.value
               all == Concat(last.seen, 1)
               scores == {all[j].score : j \in DOMAIN all}
           IN  /\ Len(res) = Min(k, Len(all))
               /\ Len(res) <= k
               /\ \A j \in 1..(Len(res) - 1) : res[j].score >= res[j + 1].score
               /\ \A r \in Range(res) :
                      Cardinality({j \in DOMAIN res : res[j] = r})
                          <= Cardinality({j \in DOMAIN all : all[j] = r})
               /\ \A v \in scores :
                      (res # << >> /\ v > res[Len(res)].score)
                          => ScoreCount(res, v) = ScoreCount(all, v)

\* a search without predicate that had to leave per-shard results out
C8_Witness ==
    /\ SearchReturned
    /\ ~last.args[3].present
    /\ last.args[2] >= 1
    /\ Len(last.seen) >= 2
    /\ Len(Concat(last.seen, 1)) > last.args[2]

\* the metadata stored under id satisfies the predicate
Satisfies(filter, id) ==
    \E i \in Stored : issued[i].id = id /\ issued[i].metadata \in filter.accepts

\* C9: search with a predicate returns the first k entries, by descending
\* score, of the merged per-shard results whose metadata satisfies it: k
\* results whenever k candidates satisfy it, each result satisfying it.
C9_FilterBeforeTruncation ==
    (SearchReturned /\ last.args[3].present)
        => LET k == last.args[2]
               all == Concat(last.seen, 1)
               candidates == SelectSeq(SortByScore(all, Len(all)),
                                       LAMBDA r : Satisfies(last.args[3], r.id))
           IN  last.result.value = SubSeq(candidates, 1, Min(k, Len(candidates)))

\* the adds routed to shard s that have been given an id: returned, or in flight
ReturnedFrom(s) == {i \in DOMAIN issued : issued[i].shard_id = s}

InFlightOn(s) == {t \in Threads : pc[t] \in {"replicate", "push"} /\ frame[t].shard_id = s}

IdsFrom(s) == {issued[i].id : i \in ReturnedFrom(s)} \cup {frame[t].id : t \in InFlightOn(s)}

\* C10: under every interleaving of concurrent adds of correctly-dimensioned
\* vectors on an initialized database every add succeeds, the ids a shard
\* issues are pairwise distinct and the shard's counter equals the number of
\* adds routed to it.
C10_ConcurrentAddsNotLost ==
    /\ (last.op = "add" /\ last.phase = "open") => last.result.ok
    /\ \A s \in DOMAIN local_shards :
           /\ local_shards[s] = Cardinality(ReturnedFrom(s)) + Cardinality(InFlightOn(s))
           /\ Cardinality(IdsFrom(s)) = local_shards[s]

\* two threads hold ids of the same shard at once
C10_Witness ==
    \E t, u \in Threads :
        /\ t # u
        /\ pc[t] \in {"replicate", "push"}
        /\ pc[u] \in {"replicate", "push"}
        /\ frame[t].shard_id = frame[u].shard_id
        /\ frame[t].phase = "open"
        /\ frame[u].phase = "open"


\* the caller's add has done its local insert and replicate_add is about to fail
HandoffFails ==
    /\ pc[Caller] = "replicate"
    /\ ~replicate(ReplicationOperation("Add", frame[Caller].id)).result.ok

\* C11: when the local insert of an add succeeded and handing the operation
\* to the replication manager fails, add returns the assigned id as a
\* success and the shard's counter is not rolled back.
C11_ReplicationFailureKeepsInsert ==
    [][(HandoffFails /\ pc'[Caller] # "replicate")
          => /\ last'.op = "add"
             /\ last'.result = Ok(frame[Caller].id)
             /\ local_shards' = local_shards
             /\ local_shards'[frame[Caller].shard_id] >= frame[Caller].id
             /\ Len(issued') = Len(issued) + 1]_vars

\* an add issued on the closed database, whose hand-off failed, returned its id
C11_Witness ==
    /\ mode = "Async"
    /\ ~running
    /\ last.op = "add"
    /\ last.phase = "closed"
    /\ last.result.ok
    /\ local_shards[last.seen[1]] >= last.result.value

(***************************************************************************)
(* Properties of the replication manager.                                  *)
(***************************************************************************)
\* a replicate_* call has returned success
CallSucceeded == call_result.op # NoOp /\ call_result.result.ok

\* C12: in Sync mode a replicate_* call does not return before
\* replicate_to_node has returned (acknowledged, or timed out) for every
\* healthy replica; in SemiSync mode not before it has for min_replicas - 1
\* of them.
C12_SyncCallWaitsForReplicas ==
    CallSucceeded
        => /\ mode = "Sync" => call_result.healthy_replicas \subseteq call_result.settled
           /\ mode = "SemiSync"
                  => Cardinality(call_result.settled)
                         >= Min(min_replicas - 1, Cardinality(call_result.healthy_replicas))

C14_StopDrainsPending ==
    (lifecycle = "stopped" /\ mode \in {"Sync", "SemiSync"})
        => \A id \in pending_at_stop : id \in DOMAIN dispatched

\* operation id is in the pending queue
Pending(id) == \E i \in DOMAIN pending_operations : pending_operations[i].id = id

\* the step in which the worker fans operation id out
Dispatches(id) == id \notin DOMAIN dispatched /\ id \in DOMAIN dispatched'

\* C15: in Async mode, while the manager keeps running, every accepted
\* operation is eventually taken from the queue and dispatched, and it is
\* dispatched to every node that is healthy and not the primary then.
C15_AsyncEventuallyDispatched ==
    /\ \A id \in 1..MaxOps : Pending(id) ~> (id \in DOMAIN dispatched \/ ~running)
    /\ [][\A id \in 1..MaxOps :
              Dispatches(id)
                  => /\ dispatched'[id] = HealthyReplicas
                     /\ \A n \in HealthyReplicas : << id, n >> \in futures']_vars

\* an operation went out to a healthy replica and not to an unhealthy one
C15_Witness ==
    /\ mode = "Async"
    /\ running
    /\ \E id \in DOMAIN dispatched : Cardinality(dispatched[id]) >= 1
    /\ \E id \in DOMAIN dispatched : dispatched[id] # Replicas

\* the manager has not been started, or stop has returned
NotRunning == lifecycle \in {"constructed", "stopped"} /\ ~running

\* C16: while the manager is not running (before start, once stop has
\* returned) no replicate_* call returns success and no operation enters the
\* pending queue, in every mode and also for calls that race with stop.
C16_NothingAcceptedWhenStopped ==
    [][NotRunning
          => /\ Len(pending_operations') <= Len(pending_operations)
             /\ call_result' # call_result => ~call_result'.result.ok]_vars

\* the nodes whose health flag is set
Healthy == {n \in DOMAIN nodes : nodes[n].is_healthy}

\* a step of trigger_failover_internal, called by trigger_failover or by the loop
FailoverStep == trigger_failover \/ failover_worker

\* a trigger_failover called now would change nothing
FailoverIdle == ENABLED (trigger_failover /\ UNCHANGED vars)

\* primary is a healthy node of the greatest priority among the healthy ones
BestHealthy(primary) ==
    /\ primary \in Healthy
    /\ \A n \in Healthy : nodes[n].config.priority <= nodes[primary].config.priority

Eligible == {n \in Healthy : nodes[n].config.priority > -1}

C18_TieGoesToLowestId ==
    [][(FailoverStep /\ current_primary' # current_primary)
          => \A n \in Healthy \ {current_primary} :
                 nodes[n].config.priority = nodes[current_primary'].config.priority
                     => current_primary' <= n]_vars

\* C19: current_primary is empty or names a node whose health flag is true.
C19_PrimaryIsHealthy ==
    current_primary = NoNode
        \/ (current_primary \in DOMAIN nodes /\ nodes[current_primary].is_healthy)

\* C20: whenever the replica table is non-empty current_primary names a node
\* of the table; it is empty only when the table is.
C20_PrimaryInTable ==
    /\ DOMAIN nodes # {} => current_primary \in DOMAIN nodes
    /\ current_primary = NoNode => DOMAIN nodes = {}

\* the call recorded by this step is op and it found the table and the
\* primary the step starts from
Calls(op) == last' # last /\ last'.op = op /\ last'.seen = nodes

\* C21: add_replica of a node id in the table fails, remove_replica of the
\* primary or of an unknown id fails, and each leaves the table and
\* current_primary unchanged; add_replica of a new id succeeds, and a
\* remove_replica of that id that follows it succeeds and restores the
\* table add_replica found.
C21_ReplicaTableEdits ==
    [][/\ Calls("add_replica")
           => LET id == last'.args[1].node_id
              IN  IF id \in DOMAIN nodes
                  THEN ~last'.result.ok /\ nodes' = nodes
                           /\ current_primary' = current_primary
                  ELSE last'.result.ok /\ DOMAIN nodes' = (DOMAIN nodes) \cup {id}
       /\ Calls("remove_replica")
           => LET id == last'.args[1]
              IN  /\ (id \notin DOMAIN nodes \/ id = current_primary)
                         => ~last'.result.ok /\ nodes' = nodes
                                /\ current_primary' = current_primary
                  /\ (last.op = "add_replica" /\ last.result.ok
                             /\ last.args[1].node_id = id)
                         => last'.result.ok /\ nodes' = last.seen]_vars

\* a manager built without nodes is without nodes again: the node that
\* add_replica had put into the table was removed by remove_replica
C21_Witness ==
    /\ last.op = "remove_replica"
    /\ last.result.ok
    /\ DOMAIN last.seen = {last.args[1]}
    /\ DOMAIN nodes = {}

\* C22: a replica the heartbeat loop has marked unhealthy is marked healthy
\* again by a later pass of the loop: no node that stays in the table stays
\* unhealthy for ever.
C22_UnhealthyNodeRecovers ==
    \A n \in NodeIds :
        (n \in DOMAIN nodes /\ ~nodes[n].is_healthy)
            ~> (n \notin DOMAIN nodes \/ nodes[n].is_healthy)

\* the call this step records is op
Returns(op) == last' # last /\ last'.op = op

\* everything start and stop of either manager write
LifecycleState == << running, lifecycle, worker, heartbeat, sharding_running >>

\* C23: for both managers start succeeds exactly when the manager is not
\* running and makes it running, stop succeeds exactly when it is running
\* and makes it not running; a call that fails changes nothing.
C23_StartStopContract ==
    [][/\ Returns("ReplicationManager::start")
           => /\ last'.result.ok <=> ~running
              /\ last'.result.ok => running'
       /\ Returns("ReplicationManager::stop")
           => /\ last'.result.ok <=> running
              /\ last'.result.ok => ~running'
       /\ Returns("ShardingManager::start")
           => /\ last'.result.ok <=> ~sharding_running
              /\ last'.result.ok => sharding_running'
       /\ Returns("ShardingManager::stop")
           => /\ last'.result.ok <=> sharding_running
              /\ last'.result.ok => ~sharding_running'
       /\ (last' # last /\ ~last'.result.ok) => UNCHANGED LifecycleState]_vars

\* the replication manager has been started and stopped and refuses a second
\* stop, while the sharding manager is running
C23_Witness ==
    /\ last.op = "ReplicationManager::stop"
    /\ ~last.result.ok
    /\ lifecycle = "stopped"
    /\ sharding_running

(***************************************************************************)
(* Properties of the sharding manager.                                     *)
(***************************************************************************)
\* C24: routing is stable: a step that leaves the shard table as it is (a
\* start, a stop, a refused add_shard or remove_shard) leaves the result of
\* get_shard_for_id for every id and of get_shard_for_key for every key as
\* it is, under every strategy.
C24_RoutingStable ==
    [][config_shards' = config_shards
          => /\ \A id \in RoutedIds : get_shard_for_id(id)' = get_shard_for_id(id)
             /\ \A key \in Keys : get_shard_for_key(key)' = get_shard_for_key(key)]_vars

\* the manager was started and stopped around lookups that tell ids apart
C24_Witness ==
    /\ last.op = "ShardingManager::stop"
    /\ last.result.ok
    /\ \E id1, id2 \in RoutedIds : get_shard_for_id(id1) # get_shard_for_id(id2)
    /\ \E key1, key2 \in Keys : get_shard_for_key(key1) # get_shard_for_key(key2)

\* ids at the ends and in the middle of the ranges of the shards
RangeIds ==
    UNION {{i * RangeWidth, i * RangeWidth + (RangeWidth \div 2), (i + 1) * RangeWidth - 1} :
           i \in ShardIds}

\* shard owns id: start inclusive, end exclusive
Owns(shard, id) == id >= shard.start_range /\ id < shard.end_range

\* get_shard_for_id(id) is the first shard of table whose range contains id,
\* if table has one
FirstOwnerIn(table, id) ==
    \A i \in DOMAIN table :
        (Owns(table[i], id) /\ \A j \in 1..(i - 1) : ~Owns(table[j], id))
            => get_shard_for_id(id) = Ok(table[i].shard_id)

ListedShards == Range(get_all_shards.value)

\* C26: on a non-empty shard table get_shard_for_id and get_shard_for_key
\* return, for every id, key and strategy, the id of a shard that
\* get_all_shards lists; on an empty table they return an error.
C26_RoutesToListedShard ==
    /\ config_shards # << >>
           => /\ \A id \in RoutedIds :
                     get_shard_for_id(id).ok /\ get_shard_for_id(id).value \in ListedShards
              /\ \A key \in Keys :
                     get_shard_for_key(key).ok
                         /\ get_shard_for_key(key).value \in ListedShards
    /\ config_shards = << >>
           => /\ \A id \in RoutedIds : ~get_shard_for_id(id).ok
              /\ \A key \in Keys : ~get_shard_for_key(key).ok

\* this step is a successful add_shard under consistent hashing
AddsShard == strategy = "Consistent" /\ Returns("add_shard") /\ last'.result.ok

\* this step is a successful remove_shard, under consistent hashing, of the
\* shard the call before it added
RemovesAddedShard ==
    /\ strategy = "Consistent"
    /\ Returns("remove_shard") /\ last'.result.ok
    /\ last.op = "add_shard" /\ last.result.ok /\ last.args = last'.args

\* every id keeps the shard it has or goes to shard s in this step
KeepsOrMovesTo(s) ==
    \A id \in RoutedIds :
        \/ get_shard_for_id(id).ok /\ get_shard_for_id(id)' = get_shard_for_id(id)
        \/ get_shard_for_id(id)' = Ok(s)

\* after this step every id is routed as before the add_shard recorded in last
RoutedAsBeforeAdd ==
    \A id \in RoutedIds : get_shard_for_id(id)' = last.seen.by_id[id]

C28_ShardTableEdits ==
    [][/\ Returns("add_shard") =>
            /\ last'.args[1] \in ListedShards => ~last'.result.ok
            /\ ~last'.result.ok => config_shards' = config_shards
            /\ last'.result.ok =>
                   /\ last'.args[1] \in ListedShards'
                   /\ Len(get_all_shards.value)' = Len(get_all_shards.value) + 1
       /\ Returns("remove_shard") =>
            /\ last'.args[1] \notin ListedShards => ~last'.result.ok
            /\ ~last'.result.ok => config_shards' = config_shards
            /\ last'.result.ok => last'.args[1] \notin ListedShards']_vars

\* add_shard has refused the id of a shard that an earlier add_shard put
\* into the table
C28_Witness ==
    /\ last.op = "add_shard"
    /\ ~last.result.ok
    /\ Len(config_shards) > Len(impl_config_shards)
    /\ last.args[1] \in ListedShards
    /\ \A i \in DOMAIN impl_config_shards : impl_config_shards[i].shard_id # last.args[1]

(***************************************************************************)
(* Properties of the BM25 engine.                                          *)
(***************************************************************************)
\* C29: add_document with an id that is already indexed fails and leaves
\* the documents, the posting lists, the document frequencies, the document
\* count, the total term count and the average document length unchanged.
C29_DuplicateDocumentRejected ==
    [][(Returns("add_document") /\ last'.args[1] \in DOMAIN documents) =>
          /\ last'.result = Err("Document already exists")
          /\ documents' = documents
          /\ inverted_index' = inverted_index
          /\ document_frequency' = document_frequency
          /\ total_documents' = total_documents
          /\ total_terms' = total_terms
          /\ avg_doc_length' = avg_doc_length]_vars

\* an indexed id was given again, with another text that has valid terms,
\* and refused
C29_Witness ==
    /\ last.op = "add_document"
    /\ ~last.result.ok
    /\ last.args[1] \in DOMAIN last.seen.documents
    /\ last.seen.documents[last.args[1]].content # last.args[2]
    /\ process_text(last.args[2], bm25_config) # << >>
    /\ last.seen = BM25State

\* document_frequency of term, 0 for a term without an entry
df(term) == IF term \in DOMAIN document_frequency THEN document_frequency[term] ELSE 0

\* the posting list of term, empty for a term without an entry
posting_list(term) == IF term \in DOMAIN inverted_index THEN inverted_index[term] ELSE << >>

\* the terms of every text callers add, under every configuration
TermsOf ==
    [config \in BM25Configs |->
        [content \in Contents |-> Range(process_text(content, config))]]

\* the indexed documents whose text, processed, contains term
Containing(term) ==
    {d \in DOMAIN documents : term \in TermsOf[bm25_config][documents[d].content]}

\* the terms of the texts callers add and the terms the engine has entries for
AllTerms ==
    UNION {TermsOf[bm25_config][content] : content \in Contents}
        \cup DOMAIN inverted_index \cup DOMAIN document_frequency

\* for every term, df is the number of documents containing it and the
\* length of its posting list, which names each of them once and no other
FrequenciesMatchPostings ==
    \A term \in AllTerms :
        /\ df(term) = Cardinality(Containing(term))
        /\ df(term) = Len(posting_list(term))
        /\ \A i \in DOMAIN posting_list(term) : posting_list(term)[i][1] \in Containing(term)
        /\ \A d \in Containing(term) :
               Cardinality({i \in DOMAIN posting_list(term) : posting_list(term)[i][1] = d}) = 1

\* a successful add raises df by 1 for the terms of the text and by 0 for
\* the others
AddRaisesFrequenciesByOne ==
    (Returns("add_document") /\ last'.result.ok) =>
        \A term \in AllTerms \cup DOMAIN document_frequency' :
            df(term)' = df(term)
                + (IF term \in TermsOf[bm25_config][last'.args[2]] THEN 1 ELSE 0)

\* C30: after any sequence of add_document calls, for every term df equals
\* the number of indexed documents containing the term and the length of
\* its posting list, which holds each such document exactly once; one
\* successful add raises df by exactly 1 for each distinct term of the
\* document and by 0 for every other term.
C30_DocumentFrequencyCountsDocuments ==
    /\ []FrequenciesMatchPostings
    /\ [][AddRaisesFrequenciesByOne]_vars

\* two documents share a term, one of them holds it twice, and the last
\* add succeeded
C30_Witness ==
    /\ last.op = "add_document"
    /\ last.result.ok
    /\ \E term \in DOMAIN inverted_index :
           /\ df(term) >= 2
           /\ \E i \in DOMAIN inverted_index[term] : inverted_index[term][i][2] >= 2

(***************************************************************************)
(* Routing after membership changes.                                       *)
(***************************************************************************)
\* the number of virtual nodes the ring holds for shard s
VirtualNodesOf(s) == Cardinality({r \in DOMAIN ring_nodes : ring_nodes[r].shard_id = s})

\* C37: after a successful add_shard or remove_shard, under Hash an id goes
\* to the shard at index hash_id(id) mod n of the current table of n shards,
\* and under Consistent the ring holds 150 virtual nodes for every shard of
\* the current table and none for any other shard.
C37_RoutingFromUpdatedTable ==
    (last.op \in {"add_shard", "remove_shard"} /\ last.result.ok) =>
        /\ (strategy = "Hash" /\ config_shards # << >>) =>
               \A id \in RoutedIds :
                   get_shard_for_id(id)
                       = Ok(config_shards[Mod64(HashOfId[id], Len(config_shards)) + 1].shard_id)
        /\ strategy = "Consistent" =>
               \A s \in ShardIds :
                   VirtualNodesOf(s)
                       = IF s \in ListedShards THEN VIRTUAL_NODES_PER_SHARD ELSE 0

(***************************************************************************)
(* Properties of the heartbeat pass.                                       *)
(***************************************************************************)
\* this step is the heartbeat pass finishing its look at a node of the table
Probes == pass.pc = "probe" /\ pass'.pc = "visit" /\ pass.node \in DOMAIN nodes

\* the pass skips the node it comes to only if that node is the primary,
\* and ends only behind the last node
SkipsPrimaryOnly ==
    (pass.pc = "visit" /\ pass' # pass) =>
        IF pass.i > Len(node_order) THEN pass'.pc = "sleep"
        ELSE IF node_order[pass.i] = current_primary
             THEN pass'.pc = "visit" /\ pass'.i = pass.i + 1
             ELSE pass'.pc = "probe" /\ pass'.node = node_order[pass.i]

\* the age of node n's heartbeat at the time the pass sampled
Age(n) == pass.now - last_heartbeat_ms[n]

\* the pass marks n unhealthy when its heartbeat is older than three
\* intervals, and otherwise sets its heartbeat to the sample and marks it
\* healthy
MarksByAge(n) ==
    IF Age(n) > 3 * heartbeat_interval_ms
    THEN ~nodes'[n].is_healthy
    ELSE last_heartbeat_ms'[n] = pass.now /\ nodes'[n].is_healthy

\* a step of the pass leaves node n as it is
Untouched(n) ==
    (pass' # pass /\ n \in DOMAIN nodes) =>
        /\ nodes'[n] = nodes[n]
        /\ last_heartbeat_ms'[n] = last_heartbeat_ms[n]

C34_NoEraseUnderAccess == pass.pc = "probe" => pass.node \in DOMAIN nodes


(***************************************************************************)
(* Properties of stop.                                                     *)
(***************************************************************************)
\* the three threads have left their loops
ThreadsExited == worker.pc = "exited" /\ heartbeat.pc = "exited" /\ failover = "exited"

\* C36: once stop has been called on a running manager, the replication,
\* heartbeat and failover threads all leave their loops and stop returns,
\* given that the tasks in flight finish; also when the notification of stop
\* comes before the replication thread blocks, and with the queue empty or not.
C36_StopReturns ==
    (lifecycle = "stopping") ~> (lifecycle = "stopped" /\ ThreadsExited)

\* stop has notified and waits in join while the replication thread is blocked
\* in wait_for: it has missed the notification
C36_Witness ==
    /\ lifecycle = "stopping"
    /\ worker.pc = "blocked"
    /\ ~running

(***************************************************************************)
(* Properties of the pending queue under concurrent callers.               *)
(***************************************************************************)
\* the replication thread takes the operation at the head of the queue
Dequeues == worker.pc = "wait" /\ worker'.pc = "process"

\* C38: the replication worker dequeues operations in non-decreasing order
\* of their timestamps, also when replicate_* calls run at the same time on
\* several threads: no operation left in the queue has an earlier timestamp
\* than the one the worker takes.
C38_DequeuedInTimestampOrder ==
    [][Dequeues
          => \A i \in DOMAIN pending_operations' :
                 worker'.op.timestamp <= pending_operations'[i].timestamp]_vars

(***************************************************************************)
(* Properties of the failover callback.                                    *)
(***************************************************************************)
\* the callback is running, or its call into the manager has not come back
InCallback == invoker.pc \in {"callback", "blocked"}

\* the callback has been called and has called a method of the manager
CallbackCalled == invoker.method # "none"

\* C39: the failover callback is invoked with the manager's mutex held by
\* the invoking thread, and once the callback has called a method of the
\* manager that takes the mutex (get_primary_node, replicate_*) the callback
\* does not return and trigger_failover does not come to an end.
C39_CallbackCallNeverReturns ==
    /\ InCallback => mutex = invoker.who
    /\ CallbackCalled => invoker.pc = "blocked"

\* C39 as the code has it: the callback is invoked with the mutex held, and
\* once its call has come to lock the mutex the callback does not return and
\* trigger_failover does not return to its caller; the thread blocks for ever
\* or the lock throws.  replicate_* called on a manager that is not running
\* or has mode None returns before the mutex, and then the callback returns.
C39_RelockNeverReturns ==
    /\ InCallback => mutex = invoker.who
    /\ invoker.relocked => invoker.pc \in RelockOutcomes
    /\ invoker.pc = "blocked" => mutex = invoker.who
    /\ (CallbackCalled /\ ~invoker.relocked) => invoker.method = "replicate_add"

\* trigger_failover has promoted a node and its callback is blocked in
\* get_primary_node on the mutex its own thread holds
C39_Witness ==
    /\ invoker.who = "caller"
    /\ invoker.pc = "blocked"
    /\ invoker.method = "get_primary_node"
    /\ mutex = "caller"
    /\ callback_arg = current_primary

(***************************************************************************)
(* Properties of the thread pool.                                          *)
(***************************************************************************)
\* no task runs twice or without having been accepted, the destructor has
\* returned only if every accepted task has been run to its end, no task is
\* both accepted and refused, and active_tasks_ stays within the workers
PoolSafe ==
    /\ \A id \in TaskIds : executed[id] <= 1
    /\ \A id \in TaskIds : executed[id] = 1 => id \in accepted
    /\ owner = "destroyed"
          => /\ \A id \in accepted : executed[id] = 1
             /\ \A w \in DOMAIN workers_ : workers_[w].pc = "exited"
             /\ tasks_ = << >>
    /\ accepted \cap rejected = {}
    /\ active_tasks_ <= Len(workers_)

\* once stop_ is set submit queues nothing
RefusedAfterStop == stop_ => accepted' = accepted /\ Len(tasks_') <= Len(tasks_)

\* C40: every task accepted by submit is run exactly once by some worker,
\* the destructor returns only after every accepted task has finished (the
\* tasks still queued at destruction are run), submit is refused once stop_
\* is set, and active_tasks_ never exceeds the number of workers.
C40_AcceptedTasksRunOnce ==
    /\ []PoolSafe
    /\ [][RefusedAfterStop]_vars
    /\ \A id \in TaskIds : (id \in accepted) ~> (executed[id] = 1)

\* the destructor has set stop_ with a task still in the queue, and a later
\* submit has been refused
C40_Witness ==
    /\ stop_
    /\ tasks_ # << >>
    /\ rejected # {}
    /\ owner = "join"

FlatSearched == flat_last.op = "search" /\ Len(flat_last.query) = dimension_

\* the positions of vectors_ whose ids are in the results
ReturnedPositions(results) ==
    {i \in DOMAIN ids_ : \E j \in DOMAIN results : results[j].id = ids_[i]}

\* C32: search(query, k) with k >= 1 returns the min(k, size) stored vectors
\* nearest to the query, nearest first: no stored vector that is left out is
\* nearer than one returned, and distances do not decrease along the results.
C32_FlatSearchExact ==
    FlatSearched
       => LET results == flat_last.results
          IN  /\ Len(results) = Min(flat_last.k, Len(vectors_))
              /\ Cardinality(ReturnedPositions(results)) = Len(results)
              /\ \A j \in DOMAIN results :
                     results[j].distance
                        = flat_distance(flat_last.query, vectors_[results[j].id])
              /\ \A i \in DOMAIN vectors_ \ ReturnedPositions(results) :
                     \A j \in DOMAIN results :
                        ~Less(flat_distance(flat_last.query, vectors_[i]),
                              results[j].distance)
              /\ \A j \in 1..(Len(results) - 1) :
                     ~Less(results[j + 1].distance, results[j].distance)

(***************************************************************************)
(* Properties of BM25Engine::search.                                       *)
(***************************************************************************)
\* search has returned results
BM25Returned == last.op = "search" /\ last.result.ok

\* the documents term occurs in
DocumentsWith(term) == {d \in DOMAIN documents : term \in DOMAIN documents[d].terms}

RECURSIVE ScoreFrom(_, _, _)
\* the BM25 score of document d for the query terms from the i-th on
ScoreFrom(d, query_terms, i) ==
    IF i > Len(query_terms) THEN 0
    ELSE (IF d \in DocumentsWith(query_terms[i])
          THEN posting_score(idf(Cardinality(DOMAIN documents),
                                 Cardinality(DocumentsWith(query_terms[i]))),
                             documents[d].terms[query_terms[i]].frequency, documents[d])
          ELSE 0)
         + ScoreFrom(d, query_terms, i + 1)

\* the BM25 score of document d for the query of the last search
Score(d) == ScoreFrom(d, process_text(last.args[1], bm25_config), 1)

\* the ids the last search returned
ReturnedIds == {last.result.value[i].id : i \in DOMAIN last.result.value}

\* C31: search(query, k, min_score) returns at most k results, each the score
\* of a document and at least min_score, ordered by descending score with
\* equal scores ordered by ascending id, and no document left out whose score
\* is at least min_score scores higher than a returned one.
C31_SearchTopK ==
    BM25Returned =>
        LET results == last.result.value
            k == last.args[2]
            min_score == last.args[3]
        IN  /\ Len(results) <= k
            /\ \A i \in DOMAIN results :
                   /\ results[i].id \in DOMAIN documents
                   /\ results[i].score = Score(results[i].id)
                   /\ results[i].score >= min_score
            /\ \A i, j \in DOMAIN results :
                   i < j => \/ results[i].score > results[j].score
                            \/ /\ results[i].score = results[j].score
                               /\ results[i].id < results[j].id
            /\ \A d \in DOMAIN documents \ ReturnedIds :
                   Score(d) >= min_score =>
                       \A i \in DOMAIN results : Score(d) <= results[i].score

\* a search for two results with a positive min_score returned two documents
\* of equal score and left out a third document that scores min_score or more
C31_Witness ==
    /\ BM25Returned
    /\ last.args[2] = 2
    /\ last.args[3] > 0
    /\ Len(last.result.value) = 2
    /\ last.result.value[1].score = last.result.value[2].score
    /\ \E d \in DOMAIN documents \ ReturnedIds :
           Score(d) >= last.args[3] /\ Score(d) < last.result.value[2].score

=========================================================================
